---------------------------- MODULE Spec2Model ----------------------------
(***************************************************************************)
(* A model of the pairing-and-resume state engine of the ytd repository:   *)
(*   - the two video/audio file matchers (merger.js, vidMerger.js),        *)
(*   - the progress-tracking playlist downloaders (youtubescrape.js,       *)
(*     merger.js) with their progress file,                                *)
(*   - the three S3 uploaders (unnamed/part_000, unnamed/part_001,         *)
(*     s3Uploader.js) with their progress / log / history files,           *)
(*   - the merge loop of vidMerger.js processFolder,                       *)
(*   - the PlaylistProcessor pipeline (unnamed/part_002) with the          *)
(*     stateless downloader of youtubescrape.js.                           *)
(*                                                                         *)
(* Each program is a separate process in the repository, so each has its   *)
(* own specification (SpecMatch, SpecDl, SpecUp, SpecFolder, SpecPP) over  *)
(* the same variables; the variables of the programs that are not running  *)
(* keep their "off" values.                                                *)
(***************************************************************************)
EXTENDS Integers, Sequences, FiniteSets, TLC

VARIABLES
    \* ---- matchers
    files,        \* the input filename list of findMatchingPairs
    matcher,      \* "off" | "input" | "exact" | "fuzzy": which matcher has run
    pairs,        \* the pairs the matcher returned
    \* ---- progress-tracking downloader (one playlist)
    dlVariant,    \* "video" (YouTubeDownloader) | "audio" (AudioYouTubeDownloader)
    total,        \* videoUrls.length of the playlist
    disk,         \* the playlist's entry in the progress file
    mem,          \* the playlist's entry in this.progress (in memory)
    pc,           \* position of the process in downloadPlaylist
    cfgStart,     \* playlistConfig.startIndex of the current run
    cfgMax,       \* playlistConfig.maxVideos of the current run (0 = null)
    resumeIndex,  \* resumeIndex of the current run
    flen,         \* filteredUrls.length of the current run
    i,            \* loop variable i of the current run
    runs,         \* number of runs started so far
    \* ---- S3 uploaders
    upVariant,    \* "hash" (part_000) | "log" (part_001) | "history" (s3Uploader.js)
    srcDir,       \* the source folder: file name -> content ("" = no such file)
    upMem,        \* this.progress.uploadedFiles / this.uploadLog.uploadedFiles
    upDisk,       \* uploadedFiles of the progress file / upload log file
    histMem,      \* this.uploadHistory.files (s3Uploader.js only)
    histDisk,     \* files of the upload history file
    upc,          \* position of the process in processFiles
    queue,        \* the files the loop of processFiles goes through
    qi,           \* 1-based position of the loop in queue
    stats,        \* sessionStats / results of the current run
    upRuns,       \* number of runs started so far
    staleAtScan,  \* names whose record held another hash than the file at the scan
    attempted,    \* names uploadToS3 was invoked for in the current run
    moveFailed,   \* names uploaded whose move or delete then failed, file unchanged since
    totalFiles,   \* mediaFiles.length of the current run
    \* ---- merge loop of processFolder
    fExists,      \* pair.alreadyExists of the matched pairs of the scan
    fpc,          \* position of the process in processFolder
    fk,           \* 1-based position of the loop in pendingPairs
    fProcessed,   \* the counter processed
    fOutcomes,    \* outcomes of the merges invoked so far, in order
    fOutputs,     \* size class of the output file of each matched pair
    fAtScan,      \* fOutputs as the scan of the current run found it
    fRuns,        \* number of the current run of processFolder
    \* ---- PlaylistProcessor (one playlist)
    ppTotal,      \* playlistUrls.length
    ppDisk,       \* the playlist's entry in processing_state.json
    ppMem,        \* the playlist's entry in this.processingState
    ppc,          \* position of the process in processPlaylists
    ppi,          \* 1-based position of the loop of the current stage
    dlResults,    \* results of downloadPlaylist (item numbers)
    mergeQueue,   \* the pairs processDownloads found (item numbers)
    mergedFiles,  \* results.mergedFiles of processDownloads
    upQueue,      \* mediaFiles of the uploader's processFiles (item numbers)
    upResults,    \* results of the uploader's processFiles
    downloadsDir, \* items whose video and audio file are in downloads/
    mergedDir,    \* items whose output is in merged/
    ppLogMem,     \* items in the uploader's this.uploadLog.uploadedFiles
    ppLogDisk,    \* items in the upload log file
    ppRuns,       \* number of runs started so far
    completedOps, \* <<stage, item>> of every stage an item has passed
    inFlight,     \* <<stage, item>> of the external operations begun and not yet ended
    \* ---- progress stores (the files as JSON text)
    stKind,       \* "download", "upload" or "processing"
    stFile,       \* the progress file: exists, and the tokens of its text
    stMem,        \* the in-memory state (this.progress / this.processingState)
    stc,          \* position of the process that owns the store
    stRuns,       \* number of runs started so far
    stOps,        \* number of store operations so far
    stSaved,      \* the state the last finished save wrote, while the file holds it
    stPersisted,  \* the records the last finished save wrote
    stForeign,    \* the first file came from an older version
    stLoadedCorrupt, \* this run loaded a file that holds no JSON
    stThrew,      \* an operation of this run raised an error
    \* ---- entry points: main of the downloaders and of the uploader
    mainProg,     \* "downloader" (youtubescrape.js, merger.js) | "uploader" (s3Uploader.js)
    fatal,        \* the process-level condition of this run ("none" when there is none)
    enabledPlaylists, \* completed of each enabled playlist, in configured order
    currentIndex, \* 1-based position of the loop of main in enabledPlaylists
    mainPc,       \* position of the process in main
    exitCode,     \* exit status of the process once it has exited
    exitCause,    \* "fatal" | "finished" | "interrupt": why the process has exited
    unitFailed,   \* some unit of the run has failed
    delayed,      \* the delay between playlists elapsed since the last downloadPlaylist
    \* ---- AudioYouTubeDownloader: the items of a playlist and the retries of one item
    auTotal,      \* filteredUrls.length
    auIndex,      \* 1-based position of the loop of downloadPlaylist
    settingsMaxRetries, \* settings.maxRetries (0 = not set)
    attempt,      \* loop variable attempt of downloadAudioContent
    auPc,         \* position of the process in downloadPlaylist / downloadAudioContent
    fallbackCalls, \* invocations of downloadVideoWithAudio for the current item
    auRecords,    \* per processed item: recorded status, fallback calls, attempts exhausted
    auCounters,   \* the counters successful and failed of downloadPlaylist
    \* ---- moveToTransferred of the uploaders
    mvVariant,    \* "hash" (part_000) | "log" (part_001)
    transferredFolder, \* the files of the transferred folder: name and content
    today,        \* the calendar day
    moves         \* calls of moveToTransferred so far

mvars == <<files, matcher, pairs>>
dvars == <<dlVariant, total, disk, mem, pc, cfgStart, cfgMax, resumeIndex, flen, i,
           runs>>
uvars == <<upVariant, srcDir, upMem, upDisk, histMem, histDisk, upc, queue, qi, stats,
           upRuns, staleAtScan, attempted, moveFailed, totalFiles>>
fvars == <<fExists, fpc, fk, fProcessed, fOutcomes, fOutputs, fAtScan, fRuns>>
pvars == <<ppTotal, ppDisk, ppMem, ppc, ppi, dlResults, mergeQueue, mergedFiles, upQueue,
           upResults, downloadsDir, mergedDir, ppLogMem, ppLogDisk, ppRuns, completedOps,
           inFlight>>
svars == <<stKind, stFile, stMem, stc, stRuns, stOps, stSaved, stPersisted, stForeign,
           stLoadedCorrupt, stThrew>>
evars == <<mainProg, fatal, enabledPlaylists, currentIndex, mainPc, exitCode, exitCause,
           unitFailed, delayed>>
rvars == <<auTotal, auIndex, settingsMaxRetries, attempt, auPc, fallbackCalls, auRecords,
           auCounters>>
tvars == <<mvVariant, transferredFolder, today, moves>>
vars == <<mvars, dvars, uvars, fvars, pvars, svars, evars, rvars, tvars>>

\* What the actions of one program leave unchanged: the other programs.
notM == <<dvars, uvars, fvars, pvars, svars, evars, rvars, tvars>>
notD == <<mvars, uvars, fvars, pvars, svars, evars, rvars, tvars>>
notU == <<mvars, dvars, fvars, pvars, svars, evars, rvars, tvars>>
notF == <<mvars, dvars, uvars, pvars, svars, evars, rvars, tvars>>
notP == <<mvars, dvars, uvars, fvars, svars, evars, rvars, tvars>>
notS == <<mvars, dvars, uvars, fvars, pvars, evars, rvars, tvars>>
notE == <<mvars, dvars, uvars, fvars, pvars, svars, rvars, tvars>>
notR == <<mvars, dvars, uvars, fvars, pvars, svars, evars, tvars>>
notT == <<mvars, dvars, uvars, fvars, pvars, svars, evars, rvars>>

(***************************************************************************)
(* Generic helpers.                                                        *)
(***************************************************************************)
Max(a, b) == IF a >= b THEN a ELSE b
Min(a, b) == IF a <= b THEN a ELSE b
Range(s) == {s[k] : k \in 1..Len(s)}

RECURSIVE Concat(_)
\* The string a token sequence stands for.
Concat(toks) == IF toks = <<>> THEN "" ELSE Head(toks) \o Concat(Tail(toks))

(***************************************************************************)
(* File names.  A file name is a sequence of tokens (words, delimiters and *)
(* the role markers video / audio in some letter case) and an extension.   *)
(* Words never end in "video" or "audio" and hold no delimiter, so the     *)
(* regular expressions of the code act on whole tokens.                    *)
(***************************************************************************)
FileName(f) == Concat(f.toks) \o f.ext

\* String.prototype.toLowerCase on the tokens and extensions that occur.
ToLower(t) ==
    CASE t = "VIDEO" -> "video"
      [] t = "Audio" -> "audio"
      [] t = ".MP4"  -> ".mp4"
      [] OTHER       -> t

VIDEO_EXTENSIONS == {".mp4", ".mov", ".avi", ".mkv", ".webm", ".m4v"}
AUDIO_EXTENSIONS == {".m4a", ".mp3", ".aac", ".wav", ".webm"}

\* The classification both matchers use: the video test comes first, so a
\* ".webm" file is always a video file.
IsVideoFile(f) == ToLower(f.ext) \in VIDEO_EXTENSIONS
IsAudioFile(f) == ~IsVideoFile(f) /\ ToLower(f.ext) \in AUDIO_EXTENSIONS

DropLast(s, n) == SubSeq(s, 1, Len(s) - n)

\* s.replace(/_<role>$/i, '')
StripUnderscoreRole(s, role) ==
    IF Len(s) >= 2 /\ ToLower(s[Len(s)]) = role /\ s[Len(s) - 1] = "_"
    THEN DropLast(s, 2) ELSE s

\* s.replace(/<role>$/i, '')
StripRole(s, role) ==
    IF Len(s) >= 1 /\ ToLower(s[Len(s)]) = role THEN DropLast(s, 1) ELSE s

RECURSIVE TrimRight(_, _)
\* Removes the trailing tokens that are in chars.
TrimRight(s, chars) ==
    IF s # <<>> /\ s[Len(s)] \in chars THEN TrimRight(DropLast(s, 1), chars) ELSE s

RECURSIVE TrimLeft(_, _)
TrimLeft(s, chars) ==
    IF s # <<>> /\ Head(s) \in chars THEN TrimLeft(Tail(s), chars) ELSE s

\* String.prototype.trim
Trim(s) == TrimLeft(TrimRight(s, {" "}), {" "})

\* vidMerger.js cleanFilename: the stem of the fuzzy matcher, as tokens.
cleanFilename(f) ==
    LET s1 == StripUnderscoreRole(f.toks, "video")
        s2 == StripUnderscoreRole(s1, "audio")
        s3 == StripRole(s2, "video")
        s4 == StripRole(s3, "audio")
    IN  TrimRight(Trim(s4), {"_", " "})

\* merger.js getBaseName: the stem of the exact matcher (case-sensitive,
\* only the suffixes _video and _audio).
getBaseName(f) ==
    LET s == f.toks
    IN  IF Len(s) >= 2 /\ s[Len(s)] \in {"video", "audio"} /\ s[Len(s) - 1] = "_"
        THEN Concat(DropLast(s, 2)) ELSE Concat(s)

\* The delimiters generateSearchTerms tries, in order.  The code also lists
\* '__' and '--', which are never reached: a name holding one of them holds
\* '_' or '-'.
Delimiters == <<"_", "-", " ">>

\* Positions of the delimiter d in the token sequence s, ascending.
DelimPositions(s, d) == {k \in 1..Len(s) : s[k] = d}

RECURSIVE AddTerms(_, _, _)
\* The inner loop of generateSearchTerms: cuts is the set of delimiter
\* positions still to try, from the last to the first.
AddTerms(s, cuts, terms) ==
    IF cuts = {} THEN terms
    ELSE LET c == CHOOSE k \in cuts : \A m \in cuts : m <= k
             term == Concat(Trim(SubSeq(s, 1, c - 1)))
         IN  AddTerms(s, cuts \ {c},
                      IF Len(term) > 3 /\ term \notin Range(terms)
                      THEN Append(terms, term) ELSE terms)

\* vidMerger.js generateSearchTerms: the clean name, then the names cut at the
\* first delimiter that occurs, longest first.
generateSearchTerms(s) ==
    LET used == {k \in 1..Len(Delimiters) : DelimPositions(s, Delimiters[k]) # {}}
    IN  IF used = {} THEN <<Concat(s)>>
        ELSE LET d == Delimiters[CHOOSE k \in used : \A m \in used : k <= m]
             IN  AddTerms(s, DelimPositions(s, d), <<Concat(s)>>)


(***************************************************************************)
(* merger.js VideoMerger.findMatchingPairs: the exact-stem matcher.        *)
(***************************************************************************)
NoFile == "<none>"

RECURSIVE DistinctBaseNames(_, _)
\* The keys of fileMap in insertion order: every file, media or not, makes
\* the key of its base name.
DistinctBaseNames(fs, acc) ==
    IF fs = <<>> THEN acc
    ELSE DistinctBaseNames(Tail(fs),
                           IF getBaseName(Head(fs)) \in Range(acc) THEN acc
                           ELSE Append(acc, getBaseName(Head(fs))))

\* fileMap[b].video: the last video file of the list with base name b.
MapVideo(fs, b) ==
    LET ks == {k \in 1..Len(fs) : getBaseName(fs[k]) = b /\ IsVideoFile(fs[k])}
    IN  IF ks = {} THEN NoFile ELSE FileName(fs[CHOOSE k \in ks : \A m \in ks : m <= k])

\* fileMap[b].audio: the last audio file of the list with base name b.
MapAudio(fs, b) ==
    LET ks == {k \in 1..Len(fs) : getBaseName(fs[k]) = b /\ IsAudioFile(fs[k])}
    IN  IF ks = {} THEN NoFile ELSE FileName(fs[CHOOSE k \in ks : \A m \in ks : m <= k])

RECURSIVE ExactPairsOf(_, _)
ExactPairsOf(fs, keys) ==
    IF keys = <<>> THEN <<>>
    ELSE LET b == Head(keys)
             rest == ExactPairsOf(fs, Tail(keys))
         IN  IF MapVideo(fs, b) # NoFile /\ MapAudio(fs, b) # NoFile
             THEN <<[baseName |-> b, video |-> MapVideo(fs, b),
                     audio |-> MapAudio(fs, b), matchLevel |-> 0]>> \o rest
             ELSE rest

ExactFindMatchingPairs(fs) == ExactPairsOf(fs, DistinctBaseNames(fs, <<>>))

\* merger.js findVideoOnlyFiles: the names of the video files whose base name
\* is not the base name of a pair.
findVideoOnlyFiles(fs, prs) ==
    LET pairedBaseNames == {prs[k].baseName : k \in 1..Len(prs)}
        videoOnly(f) == IsVideoFile(f) /\ getBaseName(f) \notin pairedBaseNames
        sel == SelectSeq(fs, videoOnly)
    IN  [k \in 1..Len(sel) |-> FileName(sel[k])]

(***************************************************************************)
(* vidMerger.js findMatchingPairs: the progressive (fuzzy) matcher.        *)
(***************************************************************************)
SearchTermsOf(f) == generateSearchTerms(cleanFilename(f))

\* 0-based index of term t in the search terms of file f.
TermIndex(f, t) == (CHOOSE k \in 1..Len(SearchTermsOf(f)) : SearchTermsOf(f)[k] = t) - 1

\* usedFiles after a pair was made.
MarkUsedVideoOnly(used, v, a) == used \cup {FileName(v)}
MarkUsed(used, v, a) == used \cup {FileName(v), FileName(a)}

\* The audio files (positions in as) that are unused and hold the video term.
Candidates(as, used, t) ==
    {j \in 1..Len(as) : FileName(as[j]) \notin used /\ t \in Range(SearchTermsOf(as[j]))}

\* The search of lines 109-127 for video v: the first video term that some
\* unused audio file holds decides; among the audio files holding it the one
\* with the lowest level wins, the first of them on a tie.  0 = no match.
BestMatch(v, as, used) ==
    LET vt == SearchTermsOf(v)
        hits == {k \in 1..Len(vt) : Candidates(as, used, vt[k]) # {}}
    IN  IF hits = {} THEN 0
        ELSE LET ti == CHOOSE k \in hits : \A m \in hits : k <= m
                 c == Candidates(as, used, vt[ti])
             IN  CHOOSE j \in c : \A m \in c :
                    \/ TermIndex(as[j], vt[ti]) < TermIndex(as[m], vt[ti])
                    \/ TermIndex(as[j], vt[ti]) = TermIndex(as[m], vt[ti]) /\ j <= m

\* matchLevel of the pair (v, a): termIndex + audioTermIndex.
MatchLevel(v, a) ==
    LET vt == SearchTermsOf(v)
        ti == CHOOSE k \in 1..Len(vt) :
                 /\ vt[k] \in Range(SearchTermsOf(a))
                 /\ \A m \in 1..(k - 1) : vt[m] \notin Range(SearchTermsOf(a))
    IN  (ti - 1) + TermIndex(a, vt[ti])

RECURSIVE FuzzyLoop(_, _, _, _, _)
\* videoFiles.forEach of lines 102-159.
FuzzyLoop(vs, as, k, used, acc) ==
    IF k > Len(vs) THEN acc
    ELSE IF FileName(vs[k]) \in used THEN FuzzyLoop(vs, as, k + 1, used, acc)
    ELSE LET j == BestMatch(vs[k], as, used)
         IN  IF j = 0 THEN FuzzyLoop(vs, as, k + 1, used, acc)
             ELSE FuzzyLoop(vs, as, k + 1, MarkUsed(used, vs[k], as[j]),
                            Append(acc, [baseName |-> Concat(cleanFilename(vs[k])),
                                         video |-> FileName(vs[k]),
                                         audio |-> FileName(as[j]),
                                         matchLevel |-> MatchLevel(vs[k], as[j])]))

FuzzyFindMatchingPairs(fs) ==
    FuzzyLoop(SelectSeq(fs, IsVideoFile), SelectSeq(fs, IsAudioFile), 1, {}, <<>>)

\* unusedVideos of the fuzzy matcher: the video files no pair used.
unusedVideos(fs, prs) ==
    LET notUsed(f) == IsVideoFile(f) /\ \A k \in 1..Len(prs) : prs[k].video # FileName(f)
        sel == SelectSeq(fs, notUsed)
    IN  [k \in 1..Len(sel) |-> FileName(sel[k])]

(***************************************************************************)
(* The matcher program: an input list, then one of the two matchers.       *)
(***************************************************************************)
MaxFiles == 3

F(toks, ext) == [toks |-> toks, ext |-> ext]

FilePool ==
    { F(<<"talk", "_", "video">>, ".mp4"),
      F(<<"talk", "_", "audio">>, ".m4a"),
      F(<<"talk", "_", "audio">>, ".webm"),
      F(<<"talk", "_", "x", "_", "video">>, ".mp4"),
      F(<<"talk", "_", "y", "_", "audio">>, ".m4a"),
      F(<<"talk", "_", "x", "_", "y", "_", "z", "_", "audio">>, ".m4a"),
      F(<<"orphan", "_", "video">>, ".mp4"),
      F(<<"talk">>, ".mp4"),
      F(<<"notes">>, ".txt") }

FileLists == UNION {[1..n -> FilePool] : n \in 0..MaxFiles}

MatchOff == files = <<>> /\ matcher = "off" /\ pairs = <<>>

InitMatchVars == files \in FileLists /\ matcher = "input" /\ pairs = <<>>

MatchExact ==
    /\ matcher = "input"
    /\ matcher' = "exact"
    /\ pairs' = ExactFindMatchingPairs(files)
    /\ UNCHANGED <<files, notM>>

MatchFuzzy ==
    /\ matcher = "input"
    /\ matcher' = "fuzzy"
    /\ pairs' = FuzzyFindMatchingPairs(files)
    /\ UNCHANGED <<files, notM>>

NextMatch == MatchExact \/ MatchFuzzy

(***************************************************************************)
(* The progress-tracking downloaders: YouTubeDownloader of youtubescrape.js *)
(* (lines 11-573) and AudioYouTubeDownloader of merger.js.  One playlist;  *)
(* a list of the entry holds the video indices of its records, in the      *)
(* order they were pushed.                                                 *)
(***************************************************************************)
MaxTotal == 3        \* videos in the playlist
MaxRuns == 2         \* runs of the program
MaxStart == 1        \* playlistConfig.startIndex
MaxMaxVideos == 1    \* playlistConfig.maxVideos (0 stands for null)

\* getPlaylistProgress: the entry made for a playlist the progress lacks.
FreshEntry ==
    [completed |-> FALSE, lastVideoIndex |-> 0, downloaded |-> <<>>,
     skipped |-> <<>>, failed |-> <<>>, totalVideos |-> 0]

\* loadProgress followed by getPlaylistProgress: the playlist's entry of the
\* progress file (FreshEntry when the file or the entry is missing).
loadProgressFresh(d) == FreshEntry
loadProgress(d) == d

\* saveProgress: the playlist's entry of the file after writing progress m
\* over a file that held d.
saveProgress(m, d) == m

\* The status downloadPlaylist records for the outcome of the download
\* operation: "ok" (returned success), "fail" (returned failure) or "throw".
\* YouTubeDownloader records a returned failure as 'skipped',
\* AudioYouTubeDownloader as 'failed'.
StatusOf(variant, outcome) ==
    CASE outcome = "ok" -> "downloaded"
      [] outcome = "fail" -> IF variant = "video" THEN "skipped" ELSE "failed"
      [] OTHER -> "failed"

\* markVideoDownloaded / markAudioDownloaded, without the save.
markVideoDownloaded(p, videoIndex, status) ==
    CASE status = "downloaded" ->
            [p EXCEPT !.downloaded = Append(@, videoIndex),
                      !.lastVideoIndex = Max(@, videoIndex)]
      [] status = "skipped" -> [p EXCEPT !.skipped = Append(@, videoIndex)]
      [] OTHER -> [p EXCEPT !.failed = Append(@, videoIndex)]

\* isVideoAlreadyDownloaded / isAudioAlreadyDownloaded
isVideoAlreadyDownloaded(p, videoIndex) == videoIndex \in Range(p.downloaded)

\* const resumeIndex = Math.max(startIndex, playlistProgress.lastVideoIndex)
ResumeIndexStartOnly(startIndex, p) == startIndex
ResumeIndex(startIndex, p) == Max(startIndex, p.lastVideoIndex)

\* videoUrls.slice(resumeIndex, maxVideos ? resumeIndex + maxVideos : undefined).length
FilteredLen(n, resume, maxVideos) ==
    LET end == IF maxVideos # 0 THEN Min(n, resume + maxVideos) ELSE n
    IN  Max(0, end - Min(resume, n))

\* totalProcessed of the completion check
TotalProcessed(p) == Len(p.downloaded) + Len(p.skipped) + Len(p.failed)

\* totalProcessed >= videoUrls.length || (maxVideos && totalProcessed >= maxVideos)
CompletionCheck(p, n, maxVideos) ==
    \/ TotalProcessed(p) >= n
    \/ maxVideos # 0 /\ TotalProcessed(p) >= maxVideos

\* const videoIndex = resumeIndex + i + 1
VideoIndex == resumeIndex + i + 1

DlOff ==
    /\ dlVariant = "off" /\ total = 0 /\ disk = FreshEntry /\ mem = FreshEntry
    /\ pc = "off" /\ cfgStart = 0 /\ cfgMax = 0 /\ resumeIndex = 0 /\ flen = 0
    /\ i = 0 /\ runs = 0

InitDlVars ==
    /\ dlVariant \in {"video", "audio"}
    /\ total \in 1..MaxTotal
    /\ disk = FreshEntry /\ mem = FreshEntry
    /\ pc = "idle" /\ cfgStart = 0 /\ cfgMax = 0 /\ resumeIndex = 0 /\ flen = 0
    /\ i = 0 /\ runs = 0

\* A process starts: the constructor loads the progress file and main calls
\* downloadPlaylist with a playlistConfig.
LoadProgress(startIndex, maxVideos) ==
    /\ pc = "idle" /\ runs < MaxRuns
    /\ runs' = runs + 1
    /\ mem' = loadProgress(disk)
    /\ cfgStart' = startIndex /\ cfgMax' = maxVideos
    /\ resumeIndex' = 0 /\ flen' = 0 /\ i' = 0
    /\ pc' = "loaded"
    /\ UNCHANGED <<dlVariant, total, disk, notD>>

\* if (playlistProgress.completed) return
AlreadyCompleted ==
    /\ pc = "loaded" /\ mem.completed
    /\ pc' = "returned"
    /\ UNCHANGED <<dlVariant, total, disk, mem, cfgStart, cfgMax, resumeIndex, flen, i,
                   runs, notD>>

\* getPlaylistUrls fails or finds nothing: if (videoUrls.length === 0) return
NoVideosFound ==
    /\ pc = "loaded" /\ ~mem.completed
    /\ pc' = "returned"
    /\ UNCHANGED <<dlVariant, total, disk, mem, cfgStart, cfgMax, resumeIndex, flen, i,
                   runs, notD>>

\* The playlist's URLs are known: totalVideos, resumeIndex, filteredUrls.
BeginLoop ==
    /\ pc = "loaded" /\ ~mem.completed
    /\ mem' = [mem EXCEPT !.totalVideos = total]
    /\ resumeIndex' = ResumeIndex(cfgStart, mem)
    /\ flen' = FilteredLen(total, ResumeIndex(cfgStart, mem), cfgMax)
    /\ i' = 0
    /\ pc' = "loop"
    /\ UNCHANGED <<dlVariant, total, disk, cfgStart, cfgMax, runs, notD>>

\* An iteration of the loop begins:
\*   if (this.isVideoAlreadyDownloaded(url, videoIndex)) continue
\* and otherwise the download operation of the item is invoked.
StartDownload ==
    /\ pc = "loop" /\ i < flen
    /\ IF isVideoAlreadyDownloaded(mem, VideoIndex)
       THEN i' = i + 1 /\ pc' = pc
       ELSE i' = i /\ pc' = "downloading"
    /\ UNCHANGED <<dlVariant, total, disk, mem, cfgStart, cfgMax, resumeIndex, flen,
                   runs, notD>>

\* The download operation ends; the outcome is recorded and saved.
DownloadEnds(outcome) ==
    /\ pc = "downloading"
    /\ mem' = markVideoDownloaded(mem, VideoIndex, StatusOf(dlVariant, outcome))
    /\ disk' = saveProgress(mem', disk)
    /\ IF i < flen - 1 THEN pc' = "delay" /\ i' = i
                       ELSE pc' = "loop" /\ i' = i + 1
    /\ UNCHANGED <<dlVariant, total, cfgStart, cfgMax, resumeIndex, flen, runs, notD>>

\* The delay between downloads is over.
DelayEnds ==
    /\ pc = "delay"
    /\ i' = i + 1
    /\ pc' = "loop"
    /\ UNCHANGED <<dlVariant, total, disk, mem, cfgStart, cfgMax, resumeIndex, flen,
                   runs, notD>>

\* After the loop: the completion check and markPlaylistCompleted.
FinishPlaylist ==
    /\ pc = "loop" /\ i >= flen
    /\ IF CompletionCheck(mem, total, cfgMax)
       THEN /\ mem' = [mem EXCEPT !.completed = TRUE]
            /\ disk' = saveProgress(mem', disk)
       ELSE UNCHANGED <<mem, disk>>
    /\ pc' = "done"
    /\ UNCHANGED <<dlVariant, total, cfgStart, cfgMax, resumeIndex, flen, i, runs, notD>>

\* The process ends after downloadPlaylist returned.
ProcessEnds ==
    /\ pc \in {"done", "returned"}
    /\ pc' = "idle"
    /\ UNCHANGED <<dlVariant, total, disk, mem, cfgStart, cfgMax, resumeIndex, flen, i,
                   runs, notD>>

\* The process is interrupted (SIGINT handler: process.exit) or killed while
\* downloadPlaylist waits for an operation or a delay.
Interrupt ==
    /\ pc \in {"loaded", "downloading", "delay"}
    /\ pc' = "idle"
    /\ UNCHANGED <<dlVariant, total, disk, mem, cfgStart, cfgMax, resumeIndex, flen, i,
                   runs, notD>>

NextDl ==
    \/ \E s \in 0..MaxStart, m \in 0..MaxMaxVideos : LoadProgress(s, m)
    \/ AlreadyCompleted
    \/ NoVideosFound
    \/ BeginLoop
    \/ StartDownload
    \/ \E o \in {"ok", "fail", "throw"} : DownloadEnds(o)
    \/ DelayEnds
    \/ FinishPlaylist
    \/ ProcessEnds
    \/ Interrupt

(***************************************************************************)
(* The S3 uploaders: the hash-verifying uploader (unnamed/part_000), the   *)
(* upload-log uploader (unnamed/part_001, lines 1607-1889) and the         *)
(* upload-history uploader (s3Uploader.js).  A file of the source folder   *)
(* is a name with a content; hash and size are functions of the content.   *)
(* Writes of the progress files are taken to succeed.                      *)
(***************************************************************************)
MaxUpRuns == 2       \* runs of the uploader

UpNames == {"a.mp4", "b.mp4"}
\* mediaFiles.sort((a, b) => a.name.localeCompare(b.name))
SortedNames == <<"a.mp4", "b.mp4">>
UpContents == {"v1", "v2"}
NoContent == ""

\* crypto.createHash('md5').update(fileBuffer).digest('hex')
HashOf(c) == "md5(" \o c \o ")"
\* stats.size
SizeOf(c) == IF c = "v1" THEN 1000 ELSE IF c = "v2" THEN 2000 ELSE 0
\* The upload-log uploader computes and stores no hash.
NoHash == "-"

NoRecord == [status |-> "none", fileHash |-> NoHash, fileSizeBytes |-> 0]
EmptyLog == [n \in UpNames |-> NoRecord]
ZeroStats == [uploaded |-> 0, skipped |-> 0, failed |-> 0]

\* getMediaFiles: the media files of the folder with their size and hash.
getMediaFiles(variant, dir) ==
    LET Present(n) == dir[n] # NoContent
        names == SelectSeq(SortedNames, Present)
    IN  [k \in 1..Len(names) |->
            [name |-> names[k], size |-> SizeOf(dir[names[k]]),
             hash |-> IF variant = "log" THEN NoHash ELSE HashOf(dir[names[k]])]]

\* loadProgress (part_000, s3Uploader.js) / loadUploadLog (part_001)
loadUploadLog(d) == d

\* saveProgress (part_000, s3Uploader.js) / saveUploadLog (part_001): the
\* uploadedFiles of the file after writing m over a file that held d.
saveUploadLogNot(m, d) == d
saveUploadLog(m, d) == m

\* s3Uploader.js loadUploadHistory: the history file, or the records of the
\* progress file when the history holds no file.
loadUploadHistory(h, pr) ==
    IF (\A n \in UpNames : h[n].status = "none") /\ (\E n \in UpNames : pr[n].status # "none")
    THEN pr ELSE h

\* s3Uploader.js saveUploadHistory
saveUploadHistory(m, d) == m

\* logUpload: the record of an uploaded file, made from the scanned entry.
logUpload(log, file) ==
    [log EXCEPT ![file.name] =
        [status |-> "completed", fileHash |-> file.hash, fileSizeBytes |-> file.size]]

\* part_000 isAlreadyUploaded(filename, filePath): generateFileHash reads the
\* file now in the folder (null when it cannot be read).
isAlreadyUploadedNoHash(log, filename, dir) == log[filename].status = "completed"
isAlreadyUploaded(log, filename, dir) ==
    LET uploadRecord == log[filename]
    IN  IF uploadRecord.status = "none" THEN FALSE
        ELSE IF /\ uploadRecord.fileHash # NoHash
                /\ dir[filename] # NoContent
                /\ HashOf(dir[filename]) # uploadRecord.fileHash
             THEN FALSE
             ELSE uploadRecord.status = "completed"

\* part_001 isAlreadyUploaded(filename): filename in this.uploadLog.uploadedFiles
isAlreadyUploadedLog(log, filename) == log[filename].status # "none"

\* s3Uploader.js isFileInHistory(filename, fileHash)
isFileInHistoryNever(hist, filename, fileHash) == FALSE
isFileInHistory(hist, filename, fileHash) ==
    IF hist[filename].status = "none" THEN FALSE
    ELSE IF fileHash # NoHash /\ hist[filename].fileHash = fileHash THEN TRUE
    ELSE TRUE

\* The files processFiles puts in its loop: unprocessedFiles (part_000),
\* mediaFiles (part_001), newFiles (s3Uploader.js).
FilesToProcess(variant, media, log, hist, dir) ==
    LET Unprocessed(f) == ~isAlreadyUploaded(log, f.name, dir)
        New(f) == ~isFileInHistory(hist, f.name, f.hash)
    IN  CASE variant = "hash" -> SelectSeq(media, Unprocessed)
          [] variant = "history" -> SelectSeq(media, New)
          [] OTHER -> media

\* The names whose 'completed' record stores another hash than the file has.
StaleNames(log, dir) ==
    {n \in UpNames : /\ dir[n] # NoContent
                     /\ log[n].status = "completed"
                     /\ log[n].fileHash # NoHash
                     /\ log[n].fileHash # HashOf(dir[n])}

UpOff ==
    /\ upVariant = "off" /\ srcDir = [n \in UpNames |-> NoContent]
    /\ upMem = EmptyLog /\ upDisk = EmptyLog /\ histMem = EmptyLog /\ histDisk = EmptyLog
    /\ upc = "off" /\ queue = <<>> /\ qi = 1 /\ stats = ZeroStats /\ upRuns = 0
    /\ staleAtScan = {} /\ attempted = {} /\ moveFailed = {} /\ totalFiles = 0

InitUpVars ==
    /\ upVariant \in {"hash", "log", "history"}
    /\ srcDir \in [UpNames -> UpContents \cup {NoContent}]
    /\ upMem = EmptyLog /\ upDisk = EmptyLog /\ histMem = EmptyLog /\ histDisk = EmptyLog
    /\ upc = "idle" /\ queue = <<>> /\ qi = 1 /\ stats = ZeroStats /\ upRuns = 0
    /\ staleAtScan = {} /\ attempted = {} /\ moveFailed = {} /\ totalFiles = 0

\* A process starts: init() loads the progress (and the history, migrating
\* the progress records into an empty history and writing the history file).
UpStart ==
    /\ upc = "idle" /\ upRuns < MaxUpRuns
    /\ upRuns' = upRuns + 1
    /\ upMem' = loadUploadLog(upDisk)
    /\ IF upVariant = "history"
       THEN /\ histMem' = loadUploadHistory(histDisk, upDisk)
            /\ histDisk' = IF histMem' # histDisk THEN histMem' ELSE histDisk
       ELSE UNCHANGED <<histMem, histDisk>>
    /\ queue' = <<>> /\ qi' = 1 /\ stats' = ZeroStats
    /\ staleAtScan' = {} /\ attempted' = {}
    /\ upc' = "ready"
    /\ totalFiles' = 0
    /\ UNCHANGED <<upVariant, srcDir, upDisk, moveFailed, notU>>

\* processFiles up to its loop: getMediaFiles, the filter, the early returns.
ScanFiles ==
    /\ upc = "ready"
    /\ LET media == getMediaFiles(upVariant, srcDir)
           todo == FilesToProcess(upVariant, media, upMem, histMem, srcDir)
       IN  /\ queue' = todo
           /\ stats' = IF upVariant = "history"
                       THEN [stats EXCEPT !.skipped = Len(media) - Len(todo)]
                       ELSE stats
           /\ upc' = IF todo = <<>> THEN "returned" ELSE "loop"
    /\ staleAtScan' = StaleNames(IF upVariant = "history" THEN histMem ELSE upMem, srcDir)
    /\ totalFiles' = Len(getMediaFiles(upVariant, srcDir))
    /\ qi' = 1
    /\ UNCHANGED <<upVariant, srcDir, upMem, upDisk, histMem, histDisk, upRuns,
                   attempted, moveFailed, notU>>

\* An iteration of the loop begins: the already-uploaded check of part_000
\* and part_001, then uploadToS3 is invoked.
StartUpload ==
    /\ upc = "loop" /\ qi <= Len(queue)
    /\ LET file == queue[qi]
           skip == CASE upVariant = "hash" -> isAlreadyUploaded(upMem, file.name, srcDir)
                     [] upVariant = "log" -> isAlreadyUploadedLog(upMem, file.name)
                     [] OTHER -> FALSE
       IN  IF skip
           THEN /\ stats' = [stats EXCEPT !.skipped = @ + 1]
                /\ qi' = qi + 1
                /\ UNCHANGED <<upc, attempted>>
           ELSE /\ upc' = "uploading"
                /\ attempted' = attempted \cup {file.name}
                /\ UNCHANGED <<stats, qi>>
    /\ UNCHANGED <<upVariant, srcDir, upMem, upDisk, histMem, histDisk, queue, upRuns,
                   staleAtScan, moveFailed, totalFiles, notU>>

\* uploadToS3 returns: true -> logUpload, false -> failed.
UploadEnds(ok) ==
    /\ upc = "uploading"
    /\ IF ok
       THEN /\ upMem' = logUpload(upMem, queue[qi])
            /\ histMem' = IF upVariant = "history" THEN logUpload(histMem, queue[qi])
                          ELSE histMem
            /\ upc' = IF upVariant = "history" THEN "saving" ELSE "moving"
            /\ UNCHANGED <<stats, qi>>
       ELSE /\ stats' = [stats EXCEPT !.failed = @ + 1]
            /\ qi' = qi + 1
            /\ upc' = "loop"
            /\ UNCHANGED <<upMem, histMem>>
    /\ UNCHANGED <<upVariant, srcDir, upDisk, histDisk, queue, upRuns, staleAtScan,
                   attempted, moveFailed, totalFiles, notU>>

\* moveToTransferred returns (part_000, part_001).
MoveEnds(ok) ==
    /\ upc = "moving"
    /\ IF ok
       THEN /\ srcDir' = [srcDir EXCEPT ![queue[qi].name] = NoContent]
            /\ stats' = [stats EXCEPT !.uploaded = @ + 1]
       ELSE /\ stats' = [stats EXCEPT !.failed = @ + 1]
            /\ UNCHANGED srcDir
    /\ moveFailed' = IF ok THEN moveFailed ELSE moveFailed \cup {queue[qi].name}
    /\ upc' = "saving"
    /\ UNCHANGED <<upVariant, upMem, upDisk, histMem, histDisk, queue, qi, upRuns,
                   staleAtScan, attempted, totalFiles, notU>>

\* await saveProgress() / saveUploadLog() after the upload.
SaveEnds ==
    /\ upc = "saving"
    /\ upDisk' = saveUploadLog(upMem, upDisk)
    /\ IF upVariant = "history"
       THEN upc' = "savingHistory" /\ qi' = qi
       ELSE upc' = "loop" /\ qi' = qi + 1
    /\ UNCHANGED <<upVariant, srcDir, upMem, histMem, histDisk, queue, stats, upRuns,
                   staleAtScan, attempted, moveFailed, totalFiles, notU>>

\* await saveUploadHistory() after the upload (s3Uploader.js).
SaveHistoryEnds ==
    /\ upc = "savingHistory"
    /\ histDisk' = saveUploadHistory(histMem, histDisk)
    /\ upc' = "deleting"
    /\ UNCHANGED <<upVariant, srcDir, upMem, upDisk, histMem, queue, qi, stats, upRuns,
                   staleAtScan, attempted, moveFailed, totalFiles, notU>>

\* deleteFile returns (s3Uploader.js): the file counts as uploaded either way.
DeleteEnds(ok) ==
    /\ upc = "deleting"
    /\ srcDir' = IF ok THEN [srcDir EXCEPT ![queue[qi].name] = NoContent] ELSE srcDir
    /\ stats' = [stats EXCEPT !.uploaded = @ + 1]
    /\ moveFailed' = IF ok THEN moveFailed ELSE moveFailed \cup {queue[qi].name}
    /\ qi' = qi + 1
    /\ upc' = "loop"
    /\ UNCHANGED <<upVariant, upMem, upDisk, histMem, histDisk, queue, upRuns,
                   staleAtScan, attempted, totalFiles, notU>>

\* After the loop: the final saves of part_000 and s3Uploader.js.
FinishFiles ==
    /\ upc = "loop" /\ qi > Len(queue)
    /\ upDisk' = IF upVariant = "log" THEN upDisk ELSE saveUploadLog(upMem, upDisk)
    /\ histDisk' = IF upVariant = "history" THEN saveUploadHistory(histMem, histDisk)
                   ELSE histDisk
    /\ upc' = "done"
    /\ UNCHANGED <<upVariant, srcDir, upMem, histMem, queue, qi, stats, upRuns,
                   staleAtScan, attempted, moveFailed, totalFiles, notU>>

\* The process ends after processFiles returned.
UpProcessEnds ==
    /\ upc \in {"done", "returned"}
    /\ upc' = "idle"
    /\ UNCHANGED <<upVariant, srcDir, upMem, upDisk, histMem, histDisk, queue, qi, stats,
                   upRuns, staleAtScan, attempted, moveFailed, totalFiles, notU>>

\* The process is interrupted or killed while processFiles waits.
UpInterrupt ==
    /\ upc \in {"ready", "uploading", "moving", "saving", "savingHistory", "deleting"}
    /\ upc' = "idle"
    /\ moveFailed' = IF upc = "saving" THEN moveFailed \ {queue[qi].name} ELSE moveFailed
    /\ UNCHANGED <<upVariant, srcDir, upMem, upDisk, histMem, histDisk, queue, qi, stats,
                   upRuns, staleAtScan, attempted, totalFiles, notU>>

\* Between two runs a file of the source folder is written: a new file, or
\* new content under a name that is there.
FileChanges(n, c) ==
    /\ upc = "idle" /\ upRuns < MaxUpRuns
    /\ srcDir[n] # c
    /\ srcDir' = [srcDir EXCEPT ![n] = c]
    /\ moveFailed' = moveFailed \ {n}
    /\ UNCHANGED <<upVariant, upMem, upDisk, histMem, histDisk, upc, queue, qi, stats,
                   upRuns, staleAtScan, attempted, totalFiles, notU>>

NextUp ==
    \/ UpStart
    \/ ScanFiles
    \/ StartUpload
    \/ \E ok \in BOOLEAN : UploadEnds(ok)
    \/ \E ok \in BOOLEAN : MoveEnds(ok)
    \/ SaveEnds
    \/ SaveHistoryEnds
    \/ \E ok \in BOOLEAN : DeleteEnds(ok)
    \/ FinishFiles
    \/ UpProcessEnds
    \/ UpInterrupt
    \/ \E n \in UpNames, c \in UpContents : FileChanges(n, c)

(***************************************************************************)
(* vidMerger.js processFolder: the merge loop over the pending pairs.  A   *)
(* scan is the list of the matched pairs with their alreadyExists flags.   *)
(***************************************************************************)
MaxPairs == 3        \* matched pairs of a scan
MaxFolderRuns == 2   \* runs of processFolder over one folder

\* What the output path of a pair holds: no file, a file of size 0, or a
\* file of size greater than 0.
OutputSizes == {"none", "zero", "positive"}

\* No pair is ever taken for merged (mutation of isAlreadyMerged).
isAlreadyMergedNever(size) == FALSE

\* isAlreadyMerged(outputPath): false when the file does not exist, false
\* when its size is 0, true otherwise.
isAlreadyMerged(size) ==
    IF size = "none" THEN FALSE
    ELSE IF size = "zero" THEN FALSE
    ELSE TRUE

\* alreadyExists: isAlreadyMerged(outputPath) of every matched pair.
ScanFlags(outputs) == [k \in 1..Len(outputs) |-> isAlreadyMerged(outputs[k])]

\* pairs.filter(pair => !pair.alreadyExists): positions of the pending pairs.
PendingPairs(alreadyExists) ==
    LET Pending(k) == ~alreadyExists[k]
    IN  SelectSeq([k \in 1..Len(alreadyExists) |-> k], Pending)

\* The index a stage loop goes to after the operation of unit k of n failed:
\* the catch block and the failure branch go on with the next unit.
NextAfterFailureAbort(k, n) == n + 1
NextAfterFailure(k, n) == k + 1

\* The number the final summary prints as Failed.
FolderFailed == Len(PendingPairs(fExists)) - fProcessed

FolderOff ==
    /\ fExists = <<>> /\ fpc = "off" /\ fk = 1 /\ fProcessed = 0 /\ fOutcomes = <<>>
    /\ fOutputs = <<>> /\ fAtScan = <<>> /\ fRuns = 0

InitFolderVars ==
    /\ fOutputs \in UNION {[1..n -> OutputSizes] : n \in 0..MaxPairs}
    /\ fExists = ScanFlags(fOutputs) /\ fAtScan = fOutputs /\ fRuns = 1
    /\ fpc = "scanned" /\ fk = 1 /\ fProcessed = 0 /\ fOutcomes = <<>>

\* if (pairs.length === 0) return; if (pendingPairs.length === 0) return
NothingToMerge ==
    /\ fpc = "scanned" /\ PendingPairs(fExists) = <<>>
    /\ fpc' = "returned"
    /\ UNCHANGED <<fExists, fk, fProcessed, fOutcomes, fOutputs, fAtScan, fRuns, notF>>

\* let processed = 0; for (const pair of pendingPairs)
BeginMergeLoop ==
    /\ fpc = "scanned" /\ PendingPairs(fExists) # <<>>
    /\ fpc' = "loop" /\ fk' = 1 /\ fProcessed' = 0
    /\ UNCHANGED <<fExists, fOutcomes, fOutputs, fAtScan, fRuns, notF>>

\* await mergeVideoAudio(videoPath, audioPath, outputPath) is invoked.
StartMerge ==
    /\ fpc = "loop" /\ fk <= Len(PendingPairs(fExists))
    /\ fpc' = "merging"
    /\ UNCHANGED <<fExists, fk, fProcessed, fOutcomes, fOutputs, fAtScan, fRuns, notF>>

\* The promise of mergeVideoAudio resolves ("ok") or rejects ("error"):
\* processed++ or the catch block.  ffmpeg -y that exited with 0 has
\* written the output; one that failed leaves no file, an empty one or a
\* part of one (left).
MergeEnds(outcome, left) ==
    /\ fpc = "merging"
    /\ fOutputs' = [fOutputs EXCEPT ![PendingPairs(fExists)[fk]] =
                        IF outcome = "ok" THEN "positive" ELSE left]
    /\ fProcessed' = IF outcome = "ok" THEN fProcessed + 1 ELSE fProcessed
    /\ fOutcomes' = Append(fOutcomes, outcome)
    /\ fk' = IF outcome = "ok" THEN fk + 1
             ELSE NextAfterFailure(fk, Len(PendingPairs(fExists)))
    /\ fpc' = "loop"
    /\ UNCHANGED <<fExists, fAtScan, fRuns, notF>>

\* The loop is over: the final summary.
FolderSummary ==
    /\ fpc = "loop" /\ fk > Len(PendingPairs(fExists))
    /\ fpc' = "done"
    /\ UNCHANGED <<fExists, fk, fProcessed, fOutcomes, fOutputs, fAtScan, fRuns, notF>>

\* processFolder() is run again over the same folders: the scan finds the
\* same pairs (no source is removed by a run) and the outputs as they are.
FolderRunAgain ==
    /\ fpc \in {"returned", "done"} /\ fRuns < MaxFolderRuns
    /\ fRuns' = fRuns + 1
    /\ fExists' = ScanFlags(fOutputs) /\ fAtScan' = fOutputs
    /\ fpc' = "scanned" /\ fk' = 1 /\ fProcessed' = 0 /\ fOutcomes' = <<>>
    /\ UNCHANGED <<fOutputs, notF>>

NextFolder ==
    \/ NothingToMerge
    \/ BeginMergeLoop
    \/ StartMerge
    \/ \E o \in {"ok", "error"}, left \in OutputSizes : MergeEnds(o, left)
    \/ FolderSummary
    \/ FolderRunAgain

(***************************************************************************)
(* PlaylistProcessor (unnamed/part_002) for one playlist file, with the    *)
(* stateless YouTubeDownloader of youtubescrape.js (lines 670-973),        *)
(* VideoMerger.processDownloads of merger.js and the upload-log uploader   *)
(* of unnamed/part_001.  Item k of the playlist is its k-th URL; a         *)
(* successful download leaves the item's video and audio file in the       *)
(* downloads folder, a merge turns them into the item's output in the      *)
(* merged folder, an upload moves the output out of the merged folder.     *)
(***************************************************************************)
MaxUrls == 2         \* URLs in the playlist file
MaxPPRuns == 2       \* runs of the processor

\* String(i + 1).padStart(3, '0')
PaddedIndex(k) == "00" \o (CASE k = 1 -> "1" [] k = 2 -> "2" [] k = 3 -> "3" [] OTHER -> "4")
\* processPlaylists loops over every playlist file and hands the same
\* downloads and merged folder to each: the item that stands for a file
\* another playlist ("other") left there.
LeftoverItem == 0
\* const baseFilename = `${playlistName}_${paddedIndex}`
BaseFilename(k) == IF k = LeftoverItem THEN "other_001" ELSE "pl_" \o PaddedIndex(k)
\* fs.readdir of the shared folder, by name: "other_..." before "pl_...".
FolderListing == <<LeftoverItem>> \o [k \in 1..MaxUrls |-> k]
\* output: `${baseName}.mp4` of the pair of item k
OutputName(k) == BaseFilename(k) \o ".mp4"

\* The entry processPlaylists makes for a playlist the state lacks.
FreshPlaylistState ==
    [processed |-> FALSE, downloadedVideos |-> <<>>, mergedVideos |-> <<>>,
     uploadedVideos |-> <<>>]

EmptyResults == [successful |-> <<>>, failed |-> <<>>, skipped |-> <<>>]
EmptyUploadResults == [uploadedFiles |-> <<>>, skippedFiles |-> <<>>, failedFiles |-> <<>>]

\* loadProcessingState: the playlist's entry of processing_state.json.
loadProcessingStateFresh(d) == FreshPlaylistState
loadProcessingState(d) == d

\* saveProcessingState: the entry of the file after writing state m.
saveProcessingState(m, d) == m

\* alreadyDownloaded.some(file => file.startsWith(baseFilename)); the names
\* in downloadedVideos are base file names of items of this playlist.
IsAlreadyDownloaded(alreadyDownloaded, k) == BaseFilename(k) \in Range(alreadyDownloaded)

\* processDownloads: the items whose files are in the downloads folder and
\* pass  !alreadyProcessed.includes(this.getBaseName(file)),  in the order
\* of the folder listing.  getBaseName of an item's files is its base file
\* name.
ItemsToMerge(dir, alreadyProcessed) ==
    LET ToProcess(k) == k \in dir /\ BaseFilename(k) \notin Range(alreadyProcessed)
    IN  SelectSeq(FolderListing, ToProcess)

\* getMediaFiles of the uploader over the merged folder.
ItemsToUpload(dir) ==
    LET Present(k) == k \in dir
    IN  SelectSeq(FolderListing, Present)

\* The condition under which processPlaylists sets processed (lines 197-199).
AllVideosDone(dl, merged, up, n) ==
    /\ Len(dl.successful) = n
    /\ Len(merged) = Len(dl.successful)
    /\ Len(up.uploadedFiles) = Len(merged)

PPOff ==
    /\ ppTotal = 0 /\ ppDisk = FreshPlaylistState /\ ppMem = FreshPlaylistState
    /\ ppc = "off" /\ ppi = 1 /\ dlResults = EmptyResults
    /\ mergeQueue = <<>> /\ mergedFiles = <<>> /\ upQueue = <<>>
    /\ upResults = EmptyUploadResults
    /\ downloadsDir = {} /\ mergedDir = {} /\ ppLogMem = {} /\ ppLogDisk = {}
    /\ ppRuns = 0 /\ completedOps = {} /\ inFlight = {}

InitPPVars ==
    /\ ppTotal \in 1..MaxUrls
    /\ ppDisk = FreshPlaylistState /\ ppMem = FreshPlaylistState
    /\ ppc = "idle" /\ ppi = 1 /\ dlResults = EmptyResults
    /\ mergeQueue = <<>> /\ mergedFiles = <<>> /\ upQueue = <<>>
    /\ upResults = EmptyUploadResults
    /\ \E left \in {"none", "downloads", "merged"} :
          /\ downloadsDir = IF left = "downloads" THEN {LeftoverItem} ELSE {}
          /\ mergedDir = IF left = "merged" THEN {LeftoverItem} ELSE {}
    /\ ppLogMem = {} /\ ppLogDisk = {}
    /\ ppRuns = 0 /\ completedOps = {} /\ inFlight = {}

\* A process starts: init() loads the processing state; processPlaylists
\* finds the playlist file and makes the playlist's entry if it is missing.
PPStart ==
    /\ ppc = "idle" /\ ppRuns < MaxPPRuns
    /\ ppRuns' = ppRuns + 1
    /\ ppMem' = loadProcessingState(ppDisk)
    /\ ppi' = 1 /\ dlResults' = EmptyResults
    /\ mergeQueue' = <<>> /\ mergedFiles' = <<>> /\ upQueue' = <<>>
    /\ upResults' = EmptyUploadResults
    /\ ppLogMem' = {}
    /\ ppc' = "playlist"
    /\ UNCHANGED <<ppTotal, ppDisk, downloadsDir, mergedDir, ppLogDisk, completedOps, inFlight, notP>>

\* if (playlistState.processed) continue
SkipProcessedPlaylist ==
    /\ ppc = "playlist" /\ ppMem.processed
    /\ ppc' = "skipped"
    /\ UNCHANGED <<ppTotal, ppDisk, ppMem, ppi, dlResults, mergeQueue, mergedFiles, upQueue,
                   upResults, downloadsDir, mergedDir, ppLogMem, ppLogDisk, ppRuns,
                   completedOps, inFlight, notP>>

\* The playlist's URLs are read and downloader.downloadPlaylist is called.
BeginDownloads ==
    /\ ppc = "playlist" /\ ~ppMem.processed
    /\ ppc' = "download" /\ ppi' = 1 /\ dlResults' = EmptyResults
    /\ UNCHANGED <<ppTotal, ppDisk, ppMem, mergeQueue, mergedFiles, upQueue, upResults,
                   downloadsDir, mergedDir, ppLogMem, ppLogDisk, ppRuns, completedOps, inFlight, notP>>

\* An iteration of the loop of the stateless downloadPlaylist begins: the
\* item is skipped as already downloaded, or downloadSingleVideo is invoked.
StartItemDownload ==
    /\ ppc = "download" /\ ppi <= ppTotal
    /\ IF IsAlreadyDownloaded(ppMem.downloadedVideos, ppi)
       THEN /\ dlResults' = [dlResults EXCEPT !.skipped = Append(@, ppi)]
            /\ ppi' = ppi + 1
            /\ ppc' = ppc
            /\ inFlight' = inFlight
       ELSE /\ ppc' = "downloadOp"
            /\ inFlight' = inFlight \cup {<<"download", ppi>>}
            /\ UNCHANGED <<dlResults, ppi>>
    /\ UNCHANGED <<ppTotal, ppDisk, ppMem, mergeQueue, mergedFiles, upQueue, upResults,
                   downloadsDir, mergedDir, ppLogMem, ppLogDisk, ppRuns, completedOps, notP>>

\* downloadSingleVideo ends: success ("ok"), returned failure ("fail") or an
\* error thrown ("throw"); the two failures are recorded alike.  The delay
\* of 5 seconds is inside the try block, after the result is recorded: the
\* catch block goes to the next item without it.
ItemDownloadEnds(outcome) ==
    /\ ppc = "downloadOp"
    /\ IF outcome = "ok"
       THEN /\ dlResults' = [dlResults EXCEPT !.successful = Append(@, ppi)]
            /\ downloadsDir' = downloadsDir \cup {ppi}
            /\ completedOps' = completedOps \cup {<<"downloaded", ppi>>}
       ELSE /\ dlResults' = [dlResults EXCEPT !.failed = Append(@, ppi)]
            /\ UNCHANGED <<downloadsDir, completedOps>>
    /\ IF outcome # "throw" /\ ppi < ppTotal
       THEN ppc' = "downloadDelay" /\ ppi' = ppi
       ELSE /\ ppc' = "download"
            /\ ppi' = IF outcome = "ok" THEN ppi + 1 ELSE NextAfterFailure(ppi, ppTotal)
    /\ inFlight' = inFlight \ {<<"download", ppi>>}
    /\ UNCHANGED <<ppTotal, ppDisk, ppMem, mergeQueue, mergedFiles, upQueue, upResults,
                   mergedDir, ppLogMem, ppLogDisk, ppRuns, notP>>

\* The delay between two downloads is over.
ItemDelayEnds ==
    /\ ppc = "downloadDelay"
    /\ ppi' = ppi + 1
    /\ ppc' = "download"
    /\ UNCHANGED <<ppTotal, ppDisk, ppMem, dlResults, mergeQueue, mergedFiles, upQueue,
                   upResults, downloadsDir, mergedDir, ppLogMem, ppLogDisk, ppRuns,
                   completedOps, inFlight, notP>>

\* processDownloads called while the loop of downloadPlaylist still has
\* items to go.
BeginMergesEarly ==
    /\ ppc = "download"
    /\ ppMem' = [ppMem EXCEPT !.downloadedVideos =
                    @ \o [k \in 1..Len(dlResults.successful) |->
                             BaseFilename(dlResults.successful[k])]]
    /\ mergeQueue' = ItemsToMerge(downloadsDir, ppMem.mergedVideos)
    /\ mergedFiles' = <<>>
    /\ ppi' = 1
    /\ ppc' = "merge"
    /\ UNCHANGED <<ppTotal, ppDisk, dlResults, upQueue, upResults, downloadsDir, mergedDir,
                   ppLogMem, ppLogDisk, ppRuns, completedOps, inFlight, notP>>

\* downloadPlaylist returns: downloadedVideos is extended in memory and
\* merger.processDownloads scans the downloads folder.
BeginMerges ==
    /\ ppc = "download" /\ ppi > ppTotal
    /\ ppMem' = [ppMem EXCEPT !.downloadedVideos =
                    @ \o [k \in 1..Len(dlResults.successful) |->
                             BaseFilename(dlResults.successful[k])]]
    /\ mergeQueue' = ItemsToMerge(downloadsDir, ppMem.mergedVideos)
    /\ mergedFiles' = <<>>
    /\ ppi' = 1
    /\ ppc' = "merge"
    /\ UNCHANGED <<ppTotal, ppDisk, dlResults, upQueue, upResults, downloadsDir, mergedDir,
                   ppLogMem, ppLogDisk, ppRuns, completedOps, inFlight, notP>>

\* The merge of the next pair is invoked.
StartItemMerge ==
    /\ ppc = "merge" /\ ppi <= Len(mergeQueue)
    /\ ppc' = "mergeOp"
    /\ inFlight' = inFlight \cup {<<"merge", mergeQueue[ppi]>>}
    /\ UNCHANGED <<ppTotal, ppDisk, ppMem, ppi, dlResults, mergeQueue, mergedFiles, upQueue,
                   upResults, downloadsDir, mergedDir, ppLogMem, ppLogDisk, ppRuns,
                   completedOps, notP>>

\* The sources are unlinked whatever mergeVideoAudio returned.
ItemMergeEndsAlwaysDeletes(ok, deleted) ==
    /\ ppc = "mergeOp"
    /\ IF ok
       THEN /\ mergedFiles' = Append(mergedFiles, OutputName(mergeQueue[ppi]))
            /\ mergedDir' = mergedDir \cup {mergeQueue[ppi]}
            /\ completedOps' = completedOps \cup {<<"merged", mergeQueue[ppi]>>}
       ELSE UNCHANGED <<mergedFiles, mergedDir, completedOps>>
    /\ downloadsDir' = downloadsDir \ {mergeQueue[ppi]}
    /\ ppi' = ppi + 1
    /\ ppc' = "merge"
    /\ inFlight' = inFlight \ {<<"merge", mergeQueue[ppi]>>}
    /\ UNCHANGED <<ppTotal, ppDisk, ppMem, dlResults, mergeQueue, upQueue, upResults,
                   ppLogMem, ppLogDisk, ppRuns, notP>>

\* VideoMerger.mergeVideoAudio returns; after a success deleteSourceFiles
\* unlinks the sources (deleted) or logs the error of unlink and leaves them.
ItemMergeEnds(ok, deleted) ==
    /\ ppc = "mergeOp"
    /\ IF ok
       THEN /\ mergedFiles' = Append(mergedFiles, OutputName(mergeQueue[ppi]))
            /\ downloadsDir' = IF deleted THEN downloadsDir \ {mergeQueue[ppi]}
                               ELSE downloadsDir
            /\ mergedDir' = mergedDir \cup {mergeQueue[ppi]}
            /\ completedOps' = completedOps \cup {<<"merged", mergeQueue[ppi]>>}
       ELSE UNCHANGED <<mergedFiles, downloadsDir, mergedDir, completedOps>>
    /\ ppi' = ppi + 1
    /\ ppc' = "merge"
    /\ inFlight' = inFlight \ {<<"merge", mergeQueue[ppi]>>}
    /\ UNCHANGED <<ppTotal, ppDisk, ppMem, dlResults, mergeQueue, upQueue, upResults,
                   ppLogMem, ppLogDisk, ppRuns, notP>>

\* processDownloads returns: mergedVideos is extended in memory; the
\* uploader is made and its init() awaited.
BeginUploaderInit ==
    /\ ppc = "merge" /\ ppi > Len(mergeQueue)
    /\ ppMem' = [ppMem EXCEPT !.mergedVideos = @ \o mergedFiles]
    /\ ppc' = "uploaderInit"
    /\ UNCHANGED <<ppTotal, ppDisk, ppi, dlResults, mergeQueue, mergedFiles, upQueue,
                   upResults, downloadsDir, mergedDir, ppLogMem, ppLogDisk, ppRuns,
                   completedOps, inFlight, notP>>

\* uploader.init() returns (the upload log is loaded and processFiles scans
\* the merged folder) or throws: main catches the error and the process
\* exits without saving the processing state.
UploaderInitEnds(ok) ==
    /\ ppc = "uploaderInit"
    /\ IF ok
       THEN /\ ppLogMem' = ppLogDisk
            /\ upQueue' = ItemsToUpload(mergedDir)
            /\ upResults' = EmptyUploadResults
            /\ ppi' = 1
            /\ ppc' = "upload"
       ELSE /\ ppc' = "idle"
            /\ UNCHANGED <<ppLogMem, upQueue, upResults, ppi>>
    /\ UNCHANGED <<ppTotal, ppDisk, ppMem, dlResults, mergeQueue, mergedFiles, downloadsDir,
                   mergedDir, ppLogDisk, ppRuns, completedOps, inFlight, notP>>

\* An iteration of the loop of processFiles(playlistState.uploadedVideos)
\* begins: the file is skipped as already uploaded, or uploadToS3 is invoked.
StartItemUpload ==
    /\ ppc = "upload" /\ ppi <= Len(upQueue)
    /\ IF \/ OutputName(upQueue[ppi]) \in Range(ppMem.uploadedVideos)
          \/ upQueue[ppi] \in ppLogMem
       THEN /\ upResults' = [upResults EXCEPT !.skippedFiles = Append(@, OutputName(upQueue[ppi]))]
            /\ ppi' = ppi + 1
            /\ ppc' = ppc
            /\ inFlight' = inFlight
       ELSE /\ ppc' = "uploadOp"
            /\ inFlight' = inFlight \cup {<<"upload", upQueue[ppi]>>}
            /\ UNCHANGED <<upResults, ppi>>
    /\ UNCHANGED <<ppTotal, ppDisk, ppMem, dlResults, mergeQueue, mergedFiles, upQueue,
                   downloadsDir, mergedDir, ppLogMem, ppLogDisk, ppRuns, completedOps, notP>>

\* uploadToS3 returns; after a success logUpload, moveToTransferred (moved
\* tells whether it succeeded) and saveUploadLog.
ItemUploadEnds(ok, moved) ==
    /\ ppc = "uploadOp"
    /\ IF ok
       THEN /\ ppLogMem' = ppLogMem \cup {upQueue[ppi]}
            /\ ppLogDisk' = ppLogMem'
            /\ IF moved
               THEN /\ mergedDir' = mergedDir \ {upQueue[ppi]}
                    /\ completedOps' = completedOps \cup {<<"uploaded", upQueue[ppi]>>}
                    /\ upResults' = [upResults EXCEPT
                                        !.uploadedFiles = Append(@, OutputName(upQueue[ppi]))]
               ELSE /\ upResults' = [upResults EXCEPT
                                        !.failedFiles = Append(@, OutputName(upQueue[ppi]))]
                    /\ UNCHANGED <<mergedDir, completedOps>>
       ELSE /\ upResults' = [upResults EXCEPT
                                !.failedFiles = Append(@, OutputName(upQueue[ppi]))]
            /\ UNCHANGED <<ppLogMem, ppLogDisk, completedOps, mergedDir>>
    /\ ppi' = ppi + 1
    /\ ppc' = "upload"
    /\ inFlight' = inFlight \ {<<"upload", upQueue[ppi]>>}
    /\ UNCHANGED <<ppTotal, ppDisk, ppMem, dlResults, mergeQueue, mergedFiles, upQueue,
                   downloadsDir, ppRuns, notP>>

\* processFiles returns: uploadedVideos is extended, processed is set when
\* the three counts agree, and the processing state is saved.
FinishPlaylistFile ==
    /\ ppc = "upload" /\ ppi > Len(upQueue)
    /\ ppMem' = [ppMem EXCEPT
                    !.uploadedVideos = @ \o upResults.uploadedFiles,
                    !.processed = IF AllVideosDone(dlResults, mergedFiles, upResults, ppTotal)
                                  THEN TRUE ELSE @]
    /\ ppDisk' = saveProcessingState(ppMem', ppDisk)
    /\ ppc' = "done"
    /\ UNCHANGED <<ppTotal, ppi, dlResults, mergeQueue, mergedFiles, upQueue, upResults,
                   downloadsDir, mergedDir, ppLogMem, ppLogDisk, ppRuns, completedOps, inFlight, notP>>

\* The process ends after processPlaylists returned.
PPProcessEnds ==
    /\ ppc \in {"done", "skipped"}
    /\ ppc' = "idle"
    /\ UNCHANGED <<ppTotal, ppDisk, ppMem, ppi, dlResults, mergeQueue, mergedFiles, upQueue,
                   upResults, downloadsDir, mergedDir, ppLogMem, ppLogDisk, ppRuns,
                   completedOps, inFlight, notP>>

\* The process is interrupted (SIGINT handler: process.exit) or killed
\* during processPlaylists; the child process of the operation it awaits
\* ends with it.
PPInterrupt ==
    /\ ppc \in {"playlist", "download", "downloadOp", "downloadDelay", "merge", "mergeOp", "uploaderInit",
                "upload", "uploadOp"}
    /\ ppc' = "idle"
    /\ inFlight' = {}
    /\ UNCHANGED <<ppTotal, ppDisk, ppMem, ppi, dlResults, mergeQueue, mergedFiles, upQueue,
                   upResults, downloadsDir, mergedDir, ppLogMem, ppLogDisk, ppRuns,
                   completedOps, notP>>

NextPP ==
    \/ PPStart
    \/ SkipProcessedPlaylist
    \/ BeginDownloads
    \/ StartItemDownload
    \/ \E o \in {"ok", "fail", "throw"} : ItemDownloadEnds(o)
    \/ ItemDelayEnds
    \/ BeginMerges
    \/ StartItemMerge
    \/ \E ok \in BOOLEAN, deleted \in BOOLEAN : ItemMergeEnds(ok, deleted)
    \/ BeginUploaderInit
    \/ \E ok \in BOOLEAN : UploaderInitEnds(ok)
    \/ StartItemUpload
    \/ \E ok \in BOOLEAN, moved \in BOOLEAN : ItemUploadEnds(ok, moved)
    \/ FinishPlaylistFile
    \/ PPProcessEnds
    \/ PPInterrupt

(***************************************************************************)
(* The progress files as the programs read and write them.  A JavaScript   *)
(* value is a record tagged with its type; an object is the sequence of    *)
(* its members in insertion order.  A file is the sequence of the lexical  *)
(* tokens of its text.                                                     *)
(***************************************************************************)
Undefined == [t |-> "undefined"]
Null == [t |-> "null"]
NaN == [t |-> "NaN"]
Num(n) == [t |-> "number", v |-> n]
Str(s) == [t |-> "string", v |-> s]
Bool(b) == [t |-> "boolean", v |-> b]
Arr(s) == [t |-> "array", v |-> s]
Obj(ms) == [t |-> "object", v |-> ms]
Member(k, v) == [k |-> k, v |-> v]
Punct(c) == [t |-> "punct", v |-> c]

IsObject(o) == o.t = "object"
IsArray(a) == a.t = "array"
Keys(o) == {o.v[n].k : n \in 1..Len(o.v)}

\* o[key]: the member's value, undefined when the object has no such member.
Get(o, key) ==
    IF key \in Keys(o) THEN o.v[CHOOSE n \in 1..Len(o.v) : o.v[n].k = key].v
    ELSE Undefined

\* o[key] = val: replaces the member's value or adds the member at the end.
Set(o, key, val) ==
    IF key \in Keys(o)
    THEN Obj([n \in 1..Len(o.v) |-> IF o.v[n].k = key THEN Member(key, val) ELSE o.v[n]])
    ELSE Obj(Append(o.v, Member(key, val)))

\* a.push(val)
Push(a, val) == Arr(Append(a.v, val))

\* x++ on a member that holds x: a number is incremented, undefined gives NaN.
Increment(x) == IF x.t = "number" THEN Num(x.v + 1) ELSE NaN

RECURSIVE JSONstringify(_)
\* JSON.stringify(value): the tokens of the text.  A member whose value is
\* undefined is left out, undefined in an array and NaN are written as null.
JSONstringify(x) ==
    LET Written(y) == IF y.t \in {"undefined", "NaN"} THEN <<Null>> ELSE JSONstringify(y)
        RECURSIVE Elements(_)
        Elements(s) ==
            IF s = <<>> THEN <<>>
            ELSE Written(Head(s))
                 \o (IF Tail(s) = <<>> THEN <<>> ELSE <<Punct(",")>> \o Elements(Tail(s)))
        Defined(m) == m.v.t # "undefined"
        RECURSIVE Members(_)
        Members(s) ==
            IF s = <<>> THEN <<>>
            ELSE <<Str(Head(s).k), Punct(":")>> \o Written(Head(s).v)
                 \o (IF Tail(s) = <<>> THEN <<>> ELSE <<Punct(",")>> \o Members(Tail(s)))
    IN  CASE x.t = "array" -> <<Punct("[")>> \o Elements(x.v) \o <<Punct("]")>>
          [] x.t = "object" ->
                <<Punct("{")>> \o Members(SelectSeq(x.v, Defined)) \o <<Punct("}")>>
          [] x.t = "NaN" -> <<Null>>
          [] OTHER -> <<x>>

SyntaxError == [ok |-> FALSE, v |-> Undefined, next |-> 0]
IsPunct(ts, n, c) == n <= Len(ts) /\ ts[n].t = "punct" /\ ts[n].v = c

RECURSIVE ParseValue(_, _)
RECURSIVE ParseElements(_, _, _)
RECURSIVE ParseMembers(_, _, _)
\* The value that starts at token n, and the position after it.
ParseValue(ts, n) ==
    IF n > Len(ts) THEN SyntaxError
    ELSE IF ts[n].t \in {"null", "number", "string", "boolean"}
         THEN [ok |-> TRUE, v |-> ts[n], next |-> n + 1]
    ELSE IF IsPunct(ts, n, "[")
         THEN IF IsPunct(ts, n + 1, "]")
              THEN [ok |-> TRUE, v |-> Arr(<<>>), next |-> n + 2]
              ELSE ParseElements(ts, n + 1, <<>>)
    ELSE IF IsPunct(ts, n, "{")
         THEN IF IsPunct(ts, n + 1, "}")
              THEN [ok |-> TRUE, v |-> Obj(<<>>), next |-> n + 2]
              ELSE ParseMembers(ts, n + 1, Obj(<<>>))
    ELSE SyntaxError

\* The elements of an array from token n on, after the elements acc.
ParseElements(ts, n, acc) ==
    LET e == ParseValue(ts, n)
    IN  IF ~e.ok THEN SyntaxError
        ELSE IF IsPunct(ts, e.next, ",") THEN ParseElements(ts, e.next + 1, Append(acc, e.v))
        ELSE IF IsPunct(ts, e.next, "]")
             THEN [ok |-> TRUE, v |-> Arr(Append(acc, e.v)), next |-> e.next + 1]
        ELSE SyntaxError

\* The members of an object from token n on, after the members of acc; a
\* repeated key keeps its first position and takes the last value.
ParseMembers(ts, n, acc) ==
    IF ~(n <= Len(ts) /\ ts[n].t = "string" /\ IsPunct(ts, n + 1, ":")) THEN SyntaxError
    ELSE LET e == ParseValue(ts, n + 2)
         IN  IF ~e.ok THEN SyntaxError
             ELSE IF IsPunct(ts, e.next, ",")
                  THEN ParseMembers(ts, e.next + 1, Set(acc, ts[n].v, e.v))
             ELSE IF IsPunct(ts, e.next, "}")
                  THEN [ok |-> TRUE, v |-> Set(acc, ts[n].v, e.v), next |-> e.next + 1]
             ELSE SyntaxError

\* JSON.parse(text): the value, or a SyntaxError (ok = FALSE).
JSONparse(ts) ==
    LET r == ParseValue(ts, 1)
    IN  IF r.ok /\ r.next = Len(ts) + 1 THEN r ELSE SyntaxError
(***************************************************************************)
(* The progress stores: download_progress.json of YouTubeDownloader        *)
(* (youtubescrape.js, written with writeFileSync), s3_upload_progress.json *)
(* of S3MediaUploader (unnamed/part_000 and s3Uploader.js, written with    *)
(* the asynchronous fs.writeFile) and processing_state.json of             *)
(* PlaylistProcessor (unnamed/part_002, fs.writeFile).  One playlist, with *)
(* key "u" in the download progress and "pl" in the processing state.      *)
(* Every timestamp is the string "now".                                    *)
(***************************************************************************)
MaxStoreRuns == 2    \* runs of the program that owns the store
MaxStoreOps == 2     \* store operations over all runs

Now == Str("now")
AbsentFile == [exists |-> FALSE, text |-> <<>>]
TextFile(ts) == [exists |-> TRUE, text |-> ts]

\* The result of an operation on the in-memory state: the new state, or the
\* state as the operation left it when it raised a TypeError.
Returned(p) == [threw |-> FALSE, v |-> p]
Threw(p) == [threw |-> TRUE, v |-> p]

\* ---- youtubescrape.js
FreshProgress ==
    Obj(<<Member("playlists", Obj(<<>>)), Member("lastUpdated", Now),
          Member("totalDownloaded", Num(0))>>)

FreshPlaylistProgress ==
    Obj(<<Member("completed", Bool(FALSE)), Member("lastVideoIndex", Num(0)),
          Member("downloadedVideos", Arr(<<>>)), Member("skippedVideos", Arr(<<>>)),
          Member("failedVideos", Arr(<<>>)), Member("totalVideos", Num(0)),
          Member("startedAt", Now), Member("completedAt", Null)>>)

\* The file name downloadPlaylist passes to markVideoDownloaded.
VideoFilenameOf(videoIndex, status) ==
    IF status = "failed" THEN "error_" \o PaddedIndex(videoIndex)
    ELSE PaddedIndex(videoIndex) \o "_title"

\* const videoInfo = {...} of markVideoDownloaded
videoInfoNoFilename(videoIndex, status) ==
    Obj(<<Member("index", Num(videoIndex)), Member("url", Str("url")),
          Member("filename", Undefined),
          Member("timestamp", Now), Member("status", Str(status))>>)
videoInfo(videoIndex, status) ==
    Obj(<<Member("index", Num(videoIndex)), Member("url", Str("url")),
          Member("filename", Str(VideoFilenameOf(videoIndex, status))),
          Member("timestamp", Now), Member("status", Str(status))>>)

\* Math.max(a, b) with the number b: NaN unless a is a number.
MathMax(a, b) == IF a.t = "number" THEN Num(Max(a.v, b)) ELSE NaN

\* getPlaylistProgress: reading a member of this.progress.playlists raises a
\* TypeError when there is no playlists object.
getPlaylistProgress(p) ==
    IF ~IsObject(Get(p, "playlists")) THEN Threw(p)
    ELSE IF Get(Get(p, "playlists"), "u").t = "undefined"
         THEN Returned(Set(p, "playlists", Set(Get(p, "playlists"), "u", FreshPlaylistProgress)))
    ELSE Returned(p)

\* markVideoDownloaded up to its saveProgress call: push on a list the entry
\* lacks raises a TypeError.
markVideoDownloadedJs(p, videoIndex, status) ==
    LET g == getPlaylistProgress(p)
        entry == Get(Get(g.v, "playlists"), "u")
        listKey == CASE status = "downloaded" -> "downloadedVideos"
                     [] status = "skipped" -> "skippedVideos"
                     [] OTHER -> "failedVideos"
        pushed == Set(entry, listKey, Push(Get(entry, listKey), videoInfo(videoIndex, status)))
        entry2 == IF status = "downloaded"
                  THEN Set(pushed, "lastVideoIndex",
                           MathMax(Get(entry, "lastVideoIndex"), videoIndex))
                  ELSE pushed
        p2 == Set(g.v, "playlists", Set(Get(g.v, "playlists"), "u", entry2))
    IN  IF g.threw THEN g
        ELSE IF ~IsObject(entry) \/ ~IsArray(Get(entry, listKey)) THEN Threw(g.v)
        ELSE IF status = "downloaded"
             THEN Returned(Set(p2, "totalDownloaded", Increment(Get(p2, "totalDownloaded"))))
        ELSE Returned(p2)

\* markPlaylistCompleted up to its saveProgress call.
markPlaylistCompleted(p) ==
    LET g == getPlaylistProgress(p)
        entry == Get(Get(g.v, "playlists"), "u")
        entry2 == Set(Set(entry, "completed", Bool(TRUE)), "completedAt", Now)
    IN  IF g.threw THEN g
        ELSE IF ~IsObject(entry) THEN Threw(g.v)
        ELSE Returned(Set(g.v, "playlists", Set(Get(g.v, "playlists"), "u", entry2)))

\* ---- unnamed/part_000 and s3Uploader.js
FreshUploadProgress ==
    Obj(<<Member("uploadedFiles", Obj(<<>>)),
          Member("session", Obj(<<Member("startTime", Now), Member("lastUpdated", Now),
                                  Member("totalFiles", Num(0)),
                                  Member("completedFiles", Num(0))>>))>>)

\* processFiles up to its loop: the session update and the filter with
\* isAlreadyUploaded, for a folder of n >= 1 media files.
beginProcessFiles(p, n) ==
    LET session == Get(p, "session")
        p2 == Set(p, "session", Set(Set(session, "totalFiles", Num(n)), "startTime", Now))
    IN  IF ~IsObject(session) THEN Threw(p)
        ELSE IF ~IsObject(Get(p, "uploadedFiles")) THEN Threw(p2)
        ELSE Returned(p2)

\* logUpload(filename, s3Key, fileSize, fileHash)
logUploadJs(p, filename, fileSize, fileHash) ==
    LET uploadedFiles == Get(p, "uploadedFiles")
        session == Get(p, "session")
        record == Obj(<<Member("s3Key", Str("media/" \o filename)), Member("uploadDate", Now),
                        Member("fileSizeBytes", Num(fileSize)), Member("fileHash", fileHash),
                        Member("status", Str("completed")), Member("bucket", Str("bucket"))>>)
        p2 == Set(p, "uploadedFiles", Set(uploadedFiles, filename, record))
    IN  IF ~IsObject(uploadedFiles) THEN Threw(p)
        ELSE IF ~IsObject(session) THEN Threw(p2)
        ELSE Returned(Set(p2, "session",
                          Set(session, "completedFiles",
                              Increment(Get(session, "completedFiles")))))

\* ---- unnamed/part_002
\* this.processingState of the constructor, and of a failed load.
InitialProcessingState == Obj(<<Member("playlists", Obj(<<>>)), Member("lastRun", Null)>>)
FreshProcessingState == Obj(<<Member("playlists", Obj(<<>>)), Member("lastRun", Now)>>)

FreshPlaylistStateJs ==
    Obj(<<Member("processed", Bool(FALSE)), Member("downloadedVideos", Arr(<<>>)),
          Member("mergedVideos", Arr(<<>>)), Member("uploadedVideos", Arr(<<>>)),
          Member("lastProcessed", Null)>>)

\* [...old, ...new]: spreading a value that is no array raises a TypeError.
Spread(old, new) == Arr(old.v \o new)

\* The body of the loop of processPlaylists for the playlist, up to its
\* saveProcessingState call; the item of the playlist passed all stages
\* (done) or was not downloaded.
processPlaylist(p, done) ==
    LET playlists == Get(p, "playlists")
        p1 == IF Get(playlists, "pl").t = "undefined"
              THEN Set(p, "playlists", Set(playlists, "pl", FreshPlaylistStateJs))
              ELSE p
        st == Get(Get(p1, "playlists"), "pl")
        new(name) == IF done THEN <<Str(name)>> ELSE <<>>
        st1 == Set(st, "downloadedVideos", Spread(Get(st, "downloadedVideos"), new("pl_001")))
        st2 == Set(st1, "mergedVideos", Spread(Get(st, "mergedVideos"), new("pl_001.mp4")))
        st3 == Set(st2, "uploadedVideos", Spread(Get(st, "uploadedVideos"), new("pl_001.mp4")))
        st4 == IF done THEN Set(Set(st3, "processed", Bool(TRUE)), "lastProcessed", Now)
               ELSE st3
        put(s) == Set(p1, "playlists", Set(Get(p1, "playlists"), "pl", s))
    IN  IF ~IsObject(playlists) THEN Threw(p)
        ELSE IF ~IsObject(st) THEN Threw(p1)
        ELSE IF ~IsArray(Get(st, "downloadedVideos")) THEN Threw(p1)
        ELSE IF ~IsArray(Get(st, "mergedVideos")) THEN Threw(put(st1))
        ELSE IF ~IsArray(Get(st, "uploadedVideos")) THEN Threw(put(st2))
        ELSE Returned(put(st4))

\* ---- loading and saving
\* youtubescrape.js loadProgress
loadProgressEmptyObject(file) ==
    IF file.exists /\ JSONparse(file.text).ok THEN JSONparse(file.text).v
    ELSE Obj(<<>>)
loadProgressJs(file) ==
    IF file.exists /\ JSONparse(file.text).ok THEN JSONparse(file.text).v
    ELSE FreshProgress

\* part_000 / s3Uploader.js loadProgress
loadUploadProgress(file) ==
    IF file.exists /\ JSONparse(file.text).ok THEN JSONparse(file.text).v
    ELSE FreshUploadProgress

\* part_002 loadProcessingState: without a file the state of the constructor
\* stays.
loadProcessingStateJs(file) ==
    IF ~file.exists THEN InitialProcessingState
    ELSE IF JSONparse(file.text).ok THEN JSONparse(file.text).v
    ELSE FreshProcessingState

LoadStore(kind, file) ==
    CASE kind = "download" -> loadProgressJs(file)
      [] kind = "upload" -> loadUploadProgress(file)
      [] OTHER -> loadProcessingStateJs(file)

\* youtubescrape.js saveProgress: the state after  lastUpdated = now.
stampProgress(p) == Set(p, "lastUpdated", Now)

\* part_000 / s3Uploader.js saveProgress:  session.lastUpdated = now  raises
\* a TypeError inside the try when there is no session; nothing is written.
stampUploadProgress(p) ==
    IF ~IsObject(Get(p, "session")) THEN Threw(p)
    ELSE Returned(Set(p, "session", Set(Get(p, "session"), "lastUpdated", Now)))

\* fs.writeFile opens the file with flag 'w', which empties it, and then
\* writes the text: while the write is pending the file holds a prefix.
PendingPrefixes(text) == {SubSeq(text, 1, n) : n \in {0, Len(text) \div 2}}

\* Documents written by an earlier version of the program, without fields
\* this version uses.
OlderDocuments(kind) ==
    CASE kind = "download" ->
            { Obj(<<Member("lastUpdated", Now)>>),
              Obj(<<Member("playlists",
                           Obj(<<Member("u", Obj(<<Member("completed", Bool(FALSE)),
                                                   Member("lastVideoIndex", Num(0)),
                                                   Member("downloadedVideos", Arr(<<>>))>>))>>)),
                    Member("lastUpdated", Now)>>) }
      [] kind = "upload" ->
            { Obj(<<Member("uploadedFiles", Obj(<<>>))>>),
              Obj(<<Member("session", Obj(<<Member("startTime", Now),
                                            Member("lastUpdated", Now)>>))>>) }
      [] OTHER ->
            { Obj(<<Member("lastRun", Null)>>),
              Obj(<<Member("playlists",
                           Obj(<<Member("pl", Obj(<<Member("processed", Bool(FALSE)),
                                                    Member("downloadedVideos", Arr(<<>>))>>))>>)),
                    Member("lastRun", Null)>>) }

\* Texts JSON.parse rejects: an empty file, a file cut after its first token.
CorruptTexts == {<<>>, <<Punct("{")>>}

\* The records a state holds: the video records of the playlist's lists,
\* the upload records, the names in the playlist's lists.
ElementsOf(o, key) ==
    IF IsObject(o) /\ IsArray(Get(o, key))
    THEN {<<key, Get(o, key).v[n]>> : n \in 1..Len(Get(o, key).v)} ELSE {}
MembersOf(o, key) ==
    IF IsObject(o) /\ IsObject(Get(o, key))
    THEN {<<key, Get(o, key).v[n]>> : n \in 1..Len(Get(o, key).v)} ELSE {}
EntryOf(p, key, name) == IF IsObject(Get(p, key)) THEN Get(Get(p, key), name) ELSE Undefined
RecordsOf(kind, p) ==
    CASE kind = "download" ->
            UNION {ElementsOf(EntryOf(p, "playlists", "u"), l) :
                      l \in {"downloadedVideos", "skippedVideos", "failedVideos"}}
      [] kind = "upload" -> MembersOf(p, "uploadedFiles")
      [] OTHER ->
            UNION {ElementsOf(EntryOf(p, "playlists", "pl"), l) :
                      l \in {"downloadedVideos", "mergedVideos", "uploadedVideos"}}

StoreKinds == {"download", "upload", "processing"}

StoreOff ==
    /\ stKind = "off" /\ stFile = AbsentFile /\ stMem = Undefined /\ stc = "off"
    /\ stRuns = 0 /\ stOps = 0 /\ stSaved = Undefined /\ stPersisted = {}
    /\ stForeign = FALSE /\ stLoadedCorrupt = FALSE /\ stThrew = FALSE

\* Before the first run there is no file, a file an older version wrote, or
\* a file that holds no JSON.
InitStoreVars ==
    /\ stKind \in StoreKinds
    /\ \/ stFile = AbsentFile /\ stForeign = FALSE
       \/ stFile \in {TextFile(ts) : ts \in CorruptTexts} /\ stForeign = FALSE
       \/ stFile \in {TextFile(JSONstringify(d)) : d \in OlderDocuments(stKind)}
          /\ stForeign = TRUE
    /\ stMem = Undefined /\ stc = "idle" /\ stRuns = 0 /\ stOps = 0
    /\ stSaved = Undefined /\ stPersisted = {}
    /\ stLoadedCorrupt = FALSE /\ stThrew = FALSE

\* A process starts and loads the file.
StLoad ==
    /\ stc = "idle" /\ stRuns < MaxStoreRuns
    /\ stRuns' = stRuns + 1
    /\ stMem' = LoadStore(stKind, stFile)
    /\ stLoadedCorrupt' = (stFile.exists /\ ~JSONparse(stFile.text).ok)
    /\ stThrew' = FALSE
    /\ stc' = "ready"
    /\ UNCHANGED <<stKind, stFile, stOps, stSaved, stPersisted, stForeign, notS>>

\* The synchronous save of youtubescrape.js after operation result r; an
\* operation that raised an error was left before its saveProgress call.
SyncSave(r) ==
    /\ stOps' = stOps + 1
    /\ IF r.threw
       THEN /\ stMem' = r.v /\ stThrew' = TRUE
            /\ UNCHANGED <<stFile, stSaved, stPersisted>>
       ELSE /\ stMem' = stampProgress(r.v)
            /\ stFile' = TextFile(JSONstringify(stMem'))
            /\ stSaved' = stMem'
            /\ stPersisted' = RecordsOf(stKind, stMem')
            /\ UNCHANGED stThrew
    /\ UNCHANGED <<stKind, stc, stRuns, stForeign, stLoadedCorrupt, notS>>

\* downloadPlaylist records the outcome of a video.
StMarkVideo(videoIndex, status) ==
    /\ stKind = "download" /\ stc = "ready" /\ stOps < MaxStoreOps
    /\ SyncSave(markVideoDownloadedJs(stMem, videoIndex, status))

\* downloadPlaylist marks the playlist completed.
StMarkCompleted ==
    /\ stKind = "download" /\ stc = "ready" /\ stOps < MaxStoreOps
    /\ SyncSave(markPlaylistCompleted(stMem))

\* fs.writeFile(file, JSON.stringify(p)) begins: the file is emptied.
WriteBegins(p) ==
    /\ stMem' = p
    /\ \E ts \in PendingPrefixes(JSONstringify(p)) : stFile' = TextFile(ts)
    /\ stSaved' = Undefined
    /\ stc' = "writing"
    /\ UNCHANGED <<stPersisted, stThrew>>

\* The uploader's processFiles begins; an error ends the process (main).
StBeginFiles(n) ==
    /\ stKind = "upload" /\ stc = "ready"
    /\ LET r == beginProcessFiles(stMem, n)
       IN  /\ stMem' = r.v
           /\ stThrew' = r.threw
           /\ stc' = IF r.threw THEN "idle" ELSE "loop"
    /\ UNCHANGED <<stKind, stFile, stRuns, stOps, stSaved, stPersisted, stForeign,
                   stLoadedCorrupt, notS>>

\* A file was uploaded: logUpload, then saveProgress begins to write.  An
\* error of logUpload is caught by the loop, one of saveProgress by itself.
StLogUpload(filename, fileSize, fileHash) ==
    /\ stKind = "upload" /\ stc = "loop" /\ stOps < MaxStoreOps
    /\ stOps' = stOps + 1
    /\ LET r == logUploadJs(stMem, filename, fileSize, fileHash)
           s == stampUploadProgress(r.v)
       IN  IF r.threw \/ s.threw
           THEN /\ stMem' = r.v /\ stThrew' = TRUE
                /\ UNCHANGED <<stFile, stSaved, stPersisted, stc>>
           ELSE WriteBegins(s.v)
    /\ UNCHANGED <<stKind, stRuns, stForeign, stLoadedCorrupt, notS>>

\* processPlaylists goes through the playlist: a processed playlist is
\* skipped, an error ends the process (main), else saveProcessingState
\* begins to write.
StProcessPlaylist(done) ==
    /\ stKind = "processing" /\ stc = "ready" /\ stOps < MaxStoreOps
    /\ stOps' = stOps + 1
    /\ LET r == processPlaylist(stMem, done)
           skip == /\ IsObject(EntryOf(stMem, "playlists", "pl"))
                   /\ Get(EntryOf(stMem, "playlists", "pl"), "processed") = Bool(TRUE)
       IN  IF skip
           THEN /\ stc' = "finished"
                /\ UNCHANGED <<stMem, stFile, stSaved, stPersisted, stThrew>>
           ELSE IF r.threw
           THEN /\ stMem' = r.v /\ stThrew' = TRUE /\ stc' = "idle"
                /\ UNCHANGED <<stFile, stSaved, stPersisted>>
           ELSE WriteBegins(r.v)
    /\ UNCHANGED <<stKind, stRuns, stForeign, stLoadedCorrupt, notS>>

\* fs.writeFile resolves: the file holds the whole text.
StWriteEnds ==
    /\ stc = "writing"
    /\ stFile' = TextFile(JSONstringify(stMem))
    /\ stSaved' = stMem
    /\ stPersisted' = RecordsOf(stKind, stMem)
    /\ stc' = IF stKind = "upload" THEN "loop" ELSE "finished"
    /\ UNCHANGED <<stKind, stMem, stRuns, stOps, stForeign, stLoadedCorrupt, stThrew, notS>>

\* SIGINT while fs.writeFile is pending: the handler calls process.exit.
StInterrupt ==
    /\ stc = "writing"
    /\ stc' = "idle"
    /\ UNCHANGED <<stKind, stFile, stMem, stRuns, stOps, stSaved, stPersisted, stForeign,
                   stLoadedCorrupt, stThrew, notS>>

\* The process ends, or is interrupted while no write is pending.
StExit ==
    /\ stc \in {"ready", "loop", "finished"}
    /\ stc' = "idle"
    /\ UNCHANGED <<stKind, stFile, stMem, stRuns, stOps, stSaved, stPersisted, stForeign,
                   stLoadedCorrupt, stThrew, notS>>

\* Between two runs something else damages the file.
StCorrupt(ts) ==
    /\ stc = "idle" /\ stRuns < MaxStoreRuns
    /\ stFile.exists /\ JSONparse(stFile.text).ok
    /\ stFile' = TextFile(ts)
    /\ stSaved' = Undefined /\ stPersisted' = {}
    /\ UNCHANGED <<stKind, stMem, stc, stRuns, stOps, stForeign, stLoadedCorrupt, stThrew,
                   notS>>

NextStore ==
    \/ StLoad
    \/ \E k \in 1..2, status \in {"downloaded", "skipped", "failed"} : StMarkVideo(k, status)
    \/ StMarkCompleted
    \/ \E n \in 1..2 : StBeginFiles(n)
    \/ \E c \in UpContents, h \in BOOLEAN :
          StLogUpload("a.mp4", SizeOf(c), IF h THEN Str(HashOf(c)) ELSE Null)
    \/ \E done \in BOOLEAN : StProcessPlaylist(done)
    \/ StWriteEnds
    \/ StInterrupt
    \/ StExit
    \/ \E ts \in CorruptTexts : StCorrupt(ts)

(***************************************************************************)
(* The entry points: main of the two progress-tracking downloaders         *)
(* (youtubescrape.js, merger.js) with its loop over the enabled playlists, *)
(* and main of the uploader of s3Uploader.js.                              *)
(***************************************************************************)
MaxPlaylists == 3    \* enabled playlists of the configuration

\* The process-level conditions main meets: the downloader cannot reach
\* yt-dlp (initialize), cannot load the configuration (loadPlaylists),
\* fails its connection test; the uploader has no bucket name, or init()
\* cannot reach the bucket.
FatalConditions(prog) ==
    IF prog = "downloader" THEN {"none", "tool", "config", "connection"}
    ELSE {"none", "config", "backend"}

\* process.exit(n), or the end of the process after main returned (status 0).
Exited(cause, code) ==
    /\ mainPc' = "exited" /\ exitCause' = cause /\ exitCode' = code

EntryOff ==
    /\ mainProg = "off" /\ fatal = "none" /\ enabledPlaylists = <<>> /\ currentIndex = 1
    /\ mainPc = "off" /\ exitCode = 0 /\ exitCause = "none" /\ unitFailed = FALSE
    /\ delayed = TRUE

InitEntryVars ==
    /\ mainProg \in {"downloader", "uploader"}
    /\ fatal \in FatalConditions(mainProg)
    /\ enabledPlaylists \in UNION {[1..n -> BOOLEAN] : n \in 0..MaxPlaylists}
    /\ mainProg = "uploader" => enabledPlaylists = <<>>
    /\ currentIndex = 1 /\ mainPc = "start" /\ exitCode = 0 /\ exitCause = "none"
    /\ unitFailed = FALSE /\ delayed = TRUE

\* const initialized = await downloader.initialize(); if (!initialized) return
DlInitialize ==
    /\ mainPc = "start" /\ mainProg = "downloader"
    /\ IF fatal = "tool" THEN Exited("fatal", 0)
       ELSE mainPc' = "config" /\ UNCHANGED <<exitCause, exitCode>>
    /\ UNCHANGED <<mainProg, fatal, enabledPlaylists, currentIndex, unitFailed, delayed, notE>>

\* const config = downloader.loadPlaylists(); if (!config) return
DlLoadPlaylists ==
    /\ mainPc = "config"
    /\ IF fatal = "config" THEN Exited("fatal", 0)
       ELSE mainPc' = "connection" /\ UNCHANGED <<exitCause, exitCode>>
    /\ UNCHANGED <<mainProg, fatal, enabledPlaylists, currentIndex, unitFailed, delayed, notE>>

\* const connectionOk = await downloader.testConnection(); if (!connectionOk) return
DlTestConnection ==
    /\ mainPc = "connection"
    /\ IF fatal = "connection" THEN Exited("fatal", 0)
       ELSE mainPc' = "loop" /\ UNCHANGED <<exitCause, exitCode>>
    /\ UNCHANGED <<mainProg, fatal, enabledPlaylists, currentIndex, unitFailed, delayed, notE>>

\* for (const playlist of enabledPlaylists): a completed playlist is passed
\* over with continue, for another downloadPlaylist is invoked.
MainNextPlaylist ==
    /\ mainPc = "loop" /\ currentIndex <= Len(enabledPlaylists)
    /\ IF enabledPlaylists[currentIndex]
       THEN currentIndex' = currentIndex + 1 /\ mainPc' = mainPc
       ELSE currentIndex' = currentIndex /\ mainPc' = "playlist"
    /\ UNCHANGED <<mainProg, fatal, enabledPlaylists, exitCode, exitCause, unitFailed,
                   delayed, notE>>

\* The playlist after the current one is not completed: main waits.
WaitsForNext(playlists, k) == k < Len(playlists) /\ ~playlists[k + 1]

\* downloadPlaylist returns (the playlist completed or not, some of its
\* units failed or none); main waits delayBetweenPlaylists when the next
\* playlist of the list is not completed.
MainPlaylistEnds(done, failed) ==
    /\ mainPc = "playlist"
    /\ enabledPlaylists' = [enabledPlaylists EXCEPT ![currentIndex] = done]
    /\ unitFailed' = (unitFailed \/ failed)
    /\ delayed' = FALSE
    /\ IF WaitsForNext(enabledPlaylists', currentIndex)
       THEN mainPc' = "delay" /\ currentIndex' = currentIndex
       ELSE mainPc' = "loop" /\ currentIndex' = currentIndex + 1
    /\ UNCHANGED <<mainProg, fatal, exitCode, exitCause, notE>>

\* The delay between playlists is over.
MainDelayEnds ==
    /\ mainPc = "delay"
    /\ delayed' = TRUE
    /\ currentIndex' = currentIndex + 1
    /\ mainPc' = "loop"
    /\ UNCHANGED <<mainProg, fatal, enabledPlaylists, exitCode, exitCause, unitFailed, notE>>

\* After the loop main prints the totals and returns.
MainReturns ==
    /\ mainPc = "loop" /\ currentIndex > Len(enabledPlaylists)
    /\ Exited("finished", 0)
    /\ UNCHANGED <<mainProg, fatal, enabledPlaylists, currentIndex, unitFailed, delayed, notE>>

\* s3Uploader.js main: if (BUCKET_NAME === 'your-s3-bucket-name') process.exit(1)
UpCheckBucket ==
    /\ mainPc = "start" /\ mainProg = "uploader"
    /\ IF fatal = "config" THEN Exited("fatal", 1)
       ELSE mainPc' = "init" /\ UNCHANGED <<exitCause, exitCode>>
    /\ UNCHANGED <<mainProg, fatal, enabledPlaylists, currentIndex, unitFailed, delayed, notE>>

\* await uploader.init(): an error of HeadBucket is thrown on, main catches
\* it and calls process.exit(1).
UpInit ==
    /\ mainPc = "init"
    /\ IF fatal = "backend" THEN Exited("fatal", 1)
       ELSE mainPc' = "files" /\ UNCHANGED <<exitCause, exitCode>>
    /\ UNCHANGED <<mainProg, fatal, enabledPlaylists, currentIndex, unitFailed, delayed, notE>>

\* await uploader.processFiles() returns, some uploads failed or none: the
\* loop catches the errors of a file; main returns.
UpProcessFilesEnds(failed) ==
    /\ mainPc = "files"
    /\ unitFailed' = failed
    /\ Exited("finished", 0)
    /\ UNCHANGED <<mainProg, fatal, enabledPlaylists, currentIndex, delayed, notE>>

\* SIGINT handler: process.exit(0)
MainInterrupt ==
    /\ mainPc \in {"playlist", "delay", "files"}
    /\ Exited("interrupt", 0)
    /\ UNCHANGED <<mainProg, fatal, enabledPlaylists, currentIndex, unitFailed, delayed, notE>>

NextEntry ==
    \/ DlInitialize
    \/ DlLoadPlaylists
    \/ DlTestConnection
    \/ MainNextPlaylist
    \/ \E done \in BOOLEAN, failed \in BOOLEAN : MainPlaylistEnds(done, failed)
    \/ MainDelayEnds
    \/ MainReturns
    \/ UpCheckBucket
    \/ UpInit
    \/ \E failed \in BOOLEAN : UpProcessFilesEnds(failed)
    \/ MainInterrupt

(***************************************************************************)
(* AudioYouTubeDownloader (merger.js): the loop of downloadPlaylist over   *)
(* the items and, for one item, downloadAudioContent with its audio-only   *)
(* strategy and the retried fallback downloadVideoWithAudio.               *)
(***************************************************************************)
MaxItems == 2        \* items of the playlist
MaxRetries == 3      \* largest settings.maxRetries

\* settings.maxRetries || 3
MaxRetriesArg(setting) == IF setting = 0 THEN 3 ELSE setting

\* for (let attempt = 1; attempt <= maxRetries; attempt++)
TryAgainOnceMore(a, maxRetries) == a <= maxRetries + 1
TryAgain(a, maxRetries) == a <= maxRetries

\* if (attempt < maxRetries): the wait before the next attempt
BacksOff(a, maxRetries) == a < maxRetries

RetryOff ==
    /\ auTotal = 0 /\ auIndex = 1 /\ settingsMaxRetries = 0 /\ attempt = 1
    /\ auPc = "off" /\ fallbackCalls = 0 /\ auRecords = <<>>
    /\ auCounters = [successful |-> 0, failed |-> 0]

InitRetryVars ==
    /\ auTotal \in 1..MaxItems
    /\ settingsMaxRetries \in 0..MaxRetries
    /\ auIndex = 1 /\ attempt = 1 /\ auPc = "loop" /\ fallbackCalls = 0
    /\ auRecords = <<>>
    /\ auCounters = [successful |-> 0, failed |-> 0]

\* The statuses markAudioDownloaded pushes before it returns or throws: it
\* builds audioData first, reading audioInfo.duration, so a result without
\* audioInfo makes it throw a TypeError before any push.
markAudioDownloadedPushesFirst(status, hasAudioInfo) == <<status>>
markAudioDownloaded(status, hasAudioInfo) == IF hasAudioInfo THEN <<status>> ELSE <<>>

\* The statuses recorded for an item whose result is (success, audioInfo):
\* the call of the try block and, when it threw, the call of the catch
\* block, which passes an audioInfo of its own and the status 'failed'.
RecordedStatuses(success, hasAudioInfo) ==
    markAudioDownloaded(IF success THEN "downloaded" ELSE "failed", hasAudioInfo)
    \o (IF hasAudioInfo THEN <<>> ELSE <<"failed">>)

\* successful++ / failed++ of the try block follow the call that threw and
\* are not reached then; the catch block has failed++.
CountersAfter(c, success, hasAudioInfo) ==
    IF success /\ hasAudioInfo THEN [c EXCEPT !.successful = @ + 1]
    ELSE [c EXCEPT !.failed = @ + 1]

\* The outcome of the item is recorded by markAudioDownloaded and the loop
\* goes on: to the delay between items, or past the last item.
ItemRecorded(success, hasAudioInfo, exhausted) ==
    /\ auRecords' = auRecords \o
          [k \in 1..Len(RecordedStatuses(success, hasAudioInfo)) |->
              [status |-> RecordedStatuses(success, hasAudioInfo)[k],
               calls |-> fallbackCalls, exhausted |-> exhausted]]
    /\ auCounters' = CountersAfter(auCounters, success, hasAudioInfo)
    /\ auPc' = IF auIndex < auTotal THEN "delay" ELSE "loop"
    /\ auIndex' = IF auIndex < auTotal THEN auIndex ELSE auIndex + 1

\* An iteration of the loop of downloadPlaylist begins: downloadAudioContent
\* is invoked for the item.
AuStartItem ==
    /\ auPc = "loop" /\ auIndex <= auTotal
    /\ auPc' = "content"
    /\ fallbackCalls' = 0 /\ attempt' = 1
    /\ UNCHANGED <<auTotal, auIndex, settingsMaxRetries, auRecords, auCounters, notR>>

\* downloadAudioContent up to its second strategy: the video is not
\* available or has no info (a failure is returned and recorded), an
\* audio-only download succeeded, or the fallback loop is entered.
AuFirstStrategy(outcome) ==
    /\ auPc = "content"
    /\ CASE outcome = "unavailable" ->
              /\ ItemRecorded(FALSE, FALSE, FALSE)
              /\ UNCHANGED <<attempt, fallbackCalls>>
         [] outcome = "audio_only" ->
              /\ ItemRecorded(TRUE, TRUE, FALSE)
              /\ UNCHANGED <<attempt, fallbackCalls>>
         [] OTHER ->
              /\ attempt' = 1 /\ auPc' = "attempt"
              /\ UNCHANGED <<auIndex, auRecords, auCounters, fallbackCalls>>
    /\ UNCHANGED <<auTotal, settingsMaxRetries, notR>>

\* The test of the fallback loop: downloadVideoWithAudio is invoked, or all
\* strategies failed and the failure is returned and recorded.
AuLoopTest ==
    /\ auPc = "attempt"
    /\ IF TryAgain(attempt, MaxRetriesArg(settingsMaxRetries))
       THEN /\ fallbackCalls' = fallbackCalls + 1
            /\ auPc' = "fallbackOp"
            /\ UNCHANGED <<auIndex, auRecords, auCounters>>
       ELSE /\ fallbackCalls' = fallbackCalls
            /\ ItemRecorded(FALSE, TRUE, TRUE)
    /\ UNCHANGED <<auTotal, settingsMaxRetries, attempt, notR>>

\* downloadVideoWithAudio returns: success is returned and recorded; after
\* a failure the loop waits when attempts are left, and goes on.
AuFallbackEnds(ok) ==
    /\ auPc = "fallbackOp"
    /\ IF ok
       THEN /\ fallbackCalls' = fallbackCalls
            /\ ItemRecorded(TRUE, TRUE, FALSE)
            /\ UNCHANGED attempt
       ELSE /\ IF BacksOff(attempt, MaxRetriesArg(settingsMaxRetries))
               THEN auPc' = "backoff" /\ attempt' = attempt
               ELSE auPc' = "attempt" /\ attempt' = attempt + 1
            /\ UNCHANGED <<auIndex, auRecords, auCounters, fallbackCalls>>
    /\ UNCHANGED <<auTotal, settingsMaxRetries, notR>>

\* The wait of attempt * 5000 ms is over: attempt++
AuBackoffEnds ==
    /\ auPc = "backoff"
    /\ attempt' = attempt + 1
    /\ auPc' = "attempt"
    /\ UNCHANGED <<auTotal, auIndex, settingsMaxRetries, fallbackCalls, auRecords,
                   auCounters, notR>>

\* The delay between items is over.
AuDelayEnds ==
    /\ auPc = "delay"
    /\ auIndex' = auIndex + 1
    /\ auPc' = "loop"
    /\ UNCHANGED <<auTotal, settingsMaxRetries, attempt, fallbackCalls, auRecords,
                   auCounters, notR>>

\* The loop of downloadPlaylist is over.
AuLoopEnds ==
    /\ auPc = "loop" /\ auIndex > auTotal
    /\ auPc' = "done"
    /\ UNCHANGED <<auTotal, auIndex, settingsMaxRetries, attempt, fallbackCalls, auRecords,
                   auCounters, notR>>

NextRetry ==
    \/ AuStartItem
    \/ \E o \in {"unavailable", "audio_only", "fallback"} : AuFirstStrategy(o)
    \/ AuLoopTest
    \/ \E ok \in BOOLEAN : AuFallbackEnds(ok)
    \/ AuBackoffEnds
    \/ AuDelayEnds
    \/ AuLoopEnds

(***************************************************************************)
(* S3MediaUploader.moveToTransferred: the hash-log uploader (part_000)     *)
(* resolves a name collision with the date, the upload-log uploader        *)
(* (part_001) with a counter.  A file name is a stem, as tokens, and an    *)
(* extension; the transferred folder holds the content under each name.    *)
(***************************************************************************)
MaxMoves == 3        \* calls of moveToTransferred
MaxDays == 2         \* calendar days the calls fall on

\* The names of the uploaded files: a name, and the names a resolved
\* collision of it gives, which a source file may carry as well.
MovedNames ==
    { F(<<"a">>, ".mp4"),
      F(<<"a", "_", "1">>, ".mp4"),
      F(<<"a", "_", "2025-01-01">>, ".mp4") }

\* new Date().toISOString().replace(/[:.]/g, '-').split('T')[0]
DateStamp(day) ==
    CASE day = 1 -> "2025-01-01" [] day = 2 -> "2025-01-02" [] OTHER -> "2025-01-03"

\* `${counter}`
CounterText(counter) ==
    CASE counter = 1 -> "1" [] counter = 2 -> "2" [] counter = 3 -> "3"
      [] counter = 4 -> "4" [] OTHER -> "5"

\* `${name}_${suffix}${ext}`
WithSuffix(f, suffix) == F(f.toks \o <<"_", suffix>>, f.ext)

\* fsSync.existsSync(destination)
existsSync(folder, destination) == \E r \in folder : r.name = destination

\* part_000, lines 264-272: one test, then the name with the date.
TimestampDestination(f, folder, day) ==
    IF existsSync(folder, f) THEN WithSuffix(f, DateStamp(day)) ELSE f

RECURSIVE CounterLoop(_, _, _, _)
\* part_001, lines 1757-1764: while (existsSync(destination)) ... counter++
CounterLoop(f, folder, destination, counter) ==
    IF existsSync(folder, destination)
    THEN CounterLoop(f, folder, WithSuffix(f, CounterText(counter)), counter + 1)
    ELSE destination

\* The destination moveToTransferred renames the file to.
DestinationOf(variant, f, folder, day) ==
    IF variant = "hash" THEN TimestampDestination(f, folder, day)
    ELSE CounterLoop(f, folder, f, 1)

\* fs.rename(filePath, destination): a file at the destination is replaced.
rename(folder, destination, content) ==
    {r \in folder : r.name # destination} \cup {[name |-> destination, content |-> content]}

MoveOff == mvVariant = "off" /\ transferredFolder = {} /\ today = 1 /\ moves = 0

InitMoveVars ==
    /\ mvVariant \in {"hash", "log"}
    /\ transferredFolder = {} /\ today = 1 /\ moves = 0

\* moveToTransferred(filePath) for an uploaded file named f: the rename
\* succeeds, or it throws and false is returned.  The content of the file
\* is told by the number of the call.
moveToTransferred(f, ok) ==
    /\ mvVariant # "off" /\ moves < MaxMoves
    /\ moves' = moves + 1
    /\ transferredFolder' =
          IF ok THEN rename(transferredFolder,
                            DestinationOf(mvVariant, f, transferredFolder, today),
                            moves + 1)
          ELSE transferredFolder
    /\ UNCHANGED <<mvVariant, today, notT>>

\* Midnight (UTC) passes between two calls.
DayPasses ==
    /\ mvVariant # "off" /\ today < MaxDays
    /\ today' = today + 1
    /\ UNCHANGED <<mvVariant, transferredFolder, moves, notT>>

NextMove ==
    \/ \E f \in MovedNames, ok \in BOOLEAN : moveToTransferred(f, ok)
    \/ DayPasses

(***************************************************************************)
(* Specifications.                                                         *)
(***************************************************************************)
InitMatch ==
    InitMatchVars /\ DlOff /\ UpOff /\ FolderOff /\ PPOff /\ StoreOff /\ EntryOff /\ RetryOff /\ MoveOff
InitDl ==
    InitDlVars /\ MatchOff /\ UpOff /\ FolderOff /\ PPOff /\ StoreOff /\ EntryOff /\ RetryOff /\ MoveOff
InitUp ==
    InitUpVars /\ MatchOff /\ DlOff /\ FolderOff /\ PPOff /\ StoreOff /\ EntryOff /\ RetryOff /\ MoveOff
InitFolder ==
    InitFolderVars /\ MatchOff /\ DlOff /\ UpOff /\ PPOff /\ StoreOff /\ EntryOff /\ RetryOff /\ MoveOff
InitPP ==
    InitPPVars /\ MatchOff /\ DlOff /\ UpOff /\ FolderOff /\ StoreOff /\ EntryOff /\ RetryOff /\ MoveOff
InitStore ==
    InitStoreVars /\ MatchOff /\ DlOff /\ UpOff /\ FolderOff /\ PPOff /\ EntryOff /\ RetryOff /\ MoveOff
InitEntry ==
    InitEntryVars /\ MatchOff /\ DlOff /\ UpOff /\ FolderOff /\ PPOff /\ StoreOff /\ RetryOff /\ MoveOff
InitRetry ==
    InitRetryVars /\ MatchOff /\ DlOff /\ UpOff /\ FolderOff /\ PPOff /\ StoreOff /\ EntryOff /\ MoveOff
InitMove ==
    InitMoveVars /\ MatchOff /\ DlOff /\ UpOff /\ FolderOff /\ PPOff /\ StoreOff /\ EntryOff /\ RetryOff

SpecMatch == InitMatch /\ [][NextMatch]_vars
SpecDl == InitDl /\ [][NextDl]_vars
SpecUp == InitUp /\ [][NextUp]_vars
SpecPP == InitPP /\ [][NextPP]_vars
SpecStore == InitStore /\ [][NextStore]_vars
SpecEntry == InitEntry /\ [][NextEntry]_vars
SpecMove == InitMove /\ [][NextMove]_vars
\* Every awaited operation and timer of the loop returns: weak fairness.
SpecRetry == InitRetry /\ [][NextRetry]_vars /\ WF_vars(NextRetry)
\* The stage programs with a progress file: the downloaders and the uploaders.
SpecStages == (InitDl \/ InitUp) /\ [][NextDl \/ NextUp]_vars
\* The two stage loops without a progress file of their own: the merge loop
\* of processFolder and the pipeline of PlaylistProcessor.
SpecLoops == (InitFolder \/ InitPP) /\ [][NextFolder \/ NextPP]_vars
\* The two programs that keep a completed / processed flag per playlist.
SpecPlaylists == (InitDl \/ InitPP) /\ [][NextDl \/ NextPP]_vars
\* The two programs that delete their source files: the uploaders and the
\* merge stage of PlaylistProcessor.
SpecSources == (InitUp \/ InitPP) /\ [][NextUp \/ NextPP]_vars

Init ==
    \/ InitMatch \/ InitDl \/ InitUp \/ InitFolder \/ InitPP \/ InitStore \/ InitEntry \/ InitRetry
    \/ InitMove
Next ==
    \/ NextMatch \/ NextDl \/ NextUp \/ NextFolder \/ NextPP \/ NextStore \/ NextEntry \/ NextRetry
    \/ NextMove
Spec == Init /\ [][Next]_vars

(***************************************************************************)
(* Claims about the matchers.                                              *)
(***************************************************************************)
\* C1: in the pairs findMatchingPairs returns (exact and fuzzy matcher), no
\* file name occurs in two pairs: not twice as video, not twice as audio, and
\* not as the video of one pair and the audio of another.
C1_NoFileInTwoPairs ==
    matcher \in {"exact", "fuzzy"} =>
        \A a, b \in 1..Len(pairs) :
            /\ a # b => pairs[a].video # pairs[b].video /\ pairs[a].audio # pairs[b].audio
            /\ pairs[a].video # pairs[b].audio

\* C1 witness: the fuzzy matcher made a pair, and a video file of the input
\* that is in no pair would have matched an audio file had none been used.
C1_Witness ==
    /\ matcher = "fuzzy" /\ Len(pairs) >= 1
    /\ \E k \in 1..Len(files) :
          /\ IsVideoFile(files[k])
          /\ \A a \in 1..Len(pairs) : pairs[a].video # FileName(files[k])
          /\ BestMatch(files[k], SelectSeq(files, IsAudioFile), {}) # 0

(***************************************************************************)
(* Claims about the progress-tracking downloaders.                         *)
(***************************************************************************)
RecordedIndices(p) == Range(p.downloaded) \cup Range(p.skipped) \cup Range(p.failed)
AllRecorded(p) == \A k \in 1..total : k \in RecordedIndices(p)

\* C2: the download operation is never in flight for a video index that has
\* a 'downloaded' record, in memory or in the saved progress file, in any run
\* of any sequence of runs and interruptions.
C2_NoDownloadOfDownloaded ==
    pc = "downloading" =>
        /\ VideoIndex \notin Range(mem.downloaded)
        /\ VideoIndex \notin Range(disk.downloaded)

\* C2 witness: a later run, started from a progress file that holds a
\* 'downloaded' record of an unfinished playlist, downloads an item.
C2_Witness ==
    /\ pc = "downloading" /\ runs >= 2
    /\ disk.downloaded # <<>> /\ ~disk.completed

\* C3: at the end of downloadPlaylist completed is true iff every index
\* 1..totalVideos has a record in the downloaded, skipped or failed list, and
\* a playlist with an unrecorded index is never marked completed.  The code
\* counts records, not indices: a video skipped in one run and downloaded in
\* the next counts twice, and a maxVideos limit completes the playlist early.
C3_CompletedIffAllRecorded ==
    /\ pc = "done" => (mem.completed <=> AllRecorded(mem))
    /\ mem.completed => AllRecorded(mem)

\* C10: resumeIndex is max(startIndex, lastVideoIndex); lastVideoIndex never
\* decreases, in memory across markVideoDownloaded calls and restarts and in
\* the progress file; and the download operation is only invoked for indices
\* greater than lastVideoIndex.
C10_ResumeNeverRewinds ==
    [][/\ mem'.lastVideoIndex >= mem.lastVideoIndex
       /\ disk'.lastVideoIndex >= disk.lastVideoIndex
       /\ (pc = "loaded" /\ pc' = "loop" =>
              resumeIndex' = Max(cfgStart, mem.lastVideoIndex))
       /\ (pc' \in {"loop", "downloading"} /\ i' < flen' =>
              VideoIndex' > mem'.lastVideoIndex /\ VideoIndex' > disk'.lastVideoIndex)]_vars

\* C10 witness: a restarted run configured with a startIndex below the saved
\* lastVideoIndex downloads an item.
C10_Witness ==
    /\ pc = "downloading" /\ runs >= 2
    /\ cfgStart < disk.lastVideoIndex

(***************************************************************************)
(* Claims about the uploaders.                                             *)
(***************************************************************************)
QueuedNames == {queue[k].name : k \in 1..Len(queue)}

\* C4: in the hash-verifying uploader, for a file whose 'completed' record
\* stores another hash than the file now in the source folder has,
\* isAlreadyUploaded returns false, processFiles puts the file in its loop
\* and invokes uploadToS3 for it, and when the upload succeeded the record
\* holds the hash and the size of the file in the folder.
C4_ChangedFileUploadedAgain ==
    upVariant = "hash" =>
        /\ \A n \in StaleNames(upMem, srcDir) : ~isAlreadyUploaded(upMem, n, srcDir)
        /\ upc \in {"loop", "uploading", "moving", "saving", "done"} =>
              staleAtScan \subseteq QueuedNames
        /\ upc = "done" => staleAtScan \subseteq attempted
        /\ upc = "moving" /\ queue[qi].name \in staleAtScan =>
              /\ upMem[queue[qi].name].status = "completed"
              /\ upMem[queue[qi].name].fileHash = HashOf(srcDir[queue[qi].name])
              /\ upMem[queue[qi].name].fileSizeBytes = SizeOf(srcDir[queue[qi].name])

\* C4 witness: the upload of a file whose record was stale at the scan has
\* succeeded and its record was replaced.
C4_Witness ==
    /\ upVariant = "hash" /\ upc = "moving"
    /\ queue[qi].name \in staleAtScan
    /\ upDisk[queue[qi].name].status = "completed"
    /\ upDisk[queue[qi].name].fileHash # upMem[queue[qi].name].fileHash

\* C5 as stated: in the upload-history uploader isFileInHistory returns false
\* for a file whose history record stores another hash than the file has, and
\* processFiles puts such a file in its upload loop.
C5_ChangedFileNotInHistory ==
    upVariant = "history" =>
        /\ upc = "ready" =>
              \A n \in StaleNames(histMem, srcDir) :
                  ~isFileInHistory(histMem, n, HashOf(srcDir[n]))
        /\ upc \in {"loop", "returned"} => staleAtScan \subseteq QueuedNames

\* C7: while the download operation of an item or the upload of a file is in
\* flight, every record made before it is in the progress file: the records
\* in memory are those of the file.
C7_RecordSavedBeforeNextUnit ==
    /\ pc = "downloading" =>
          /\ mem.downloaded = disk.downloaded
          /\ mem.skipped = disk.skipped
          /\ mem.failed = disk.failed
          /\ mem.lastVideoIndex = disk.lastVideoIndex
    /\ upc = "uploading" => upMem = upDisk

\* C7 witness: the upload of the second file of a run is in flight after the
\* first file was uploaded in the same run, and the first file's record is in
\* the upload log file.
C7_Witness ==
    /\ upVariant = "log" /\ upc = "uploading" /\ qi = 2
    /\ queue[1].name \in attempted
    /\ upDisk[queue[1].name].status = "completed"

(***************************************************************************)
(* Claims about the stage loops and PlaylistProcessor.                     *)
(***************************************************************************)
CountOf(s, v) == Cardinality({k \in 1..Len(s) : s[k] = v})

\* C6: in the merge loop of processFolder and in the download loop of the
\* stateless downloadPlaylist the loop goes on with the next unit after every
\* outcome, and when the operation failed for exactly one unit of a finished
\* loop, the operation was invoked for every unit of the batch and the counts
\* are N-1 successes and 1 failure.
C6_FailureIsolation ==
    /\ fpc \in {"loop", "merging"} => fk = Len(fOutcomes) + 1
    /\ fpc = "done" /\ CountOf(fOutcomes, "error") = 1 =>
          /\ Len(fOutcomes) = Len(PendingPairs(fExists))
          /\ fProcessed = Len(PendingPairs(fExists)) - 1
          /\ FolderFailed = 1
    /\ ppc \in {"download", "downloadOp"} =>
          ppi = Len(dlResults.successful) + Len(dlResults.failed) + Len(dlResults.skipped) + 1
    /\ ppc \in {"merge", "mergeOp", "uploaderInit", "upload", "uploadOp", "done"}
       /\ Len(dlResults.failed) = 1 =>
          /\ Range(dlResults.successful) \cup Range(dlResults.failed)
                \cup Range(dlResults.skipped) = 1..ppTotal
          /\ Len(dlResults.successful) = ppTotal - Len(dlResults.skipped) - 1

\* C6 witness: a merge loop over three pairs has finished; the merge of the
\* first pair failed and the two later ones were merged.
C6_Witness ==
    /\ fpc = "done" /\ fOutcomes = <<"error", "ok", "ok">>
    /\ fProcessed = 2

\* Whether the processing state st holds the record of a passed stage.
Recorded(op, st) ==
    CASE op[1] = "downloaded" -> BaseFilename(op[2]) \in Range(st.downloadedVideos)
      [] op[1] = "merged" -> OutputName(op[2]) \in Range(st.mergedVideos)
      [] OTHER -> OutputName(op[2]) \in Range(st.uploadedVideos)

\* C8 as stated: whenever the PlaylistProcessor process has ended, by
\* returning, by a fatal error or by being killed, at most one record of an
\* item that was downloaded, merged or uploaded is missing from the state in
\* processing_state.json.
C8_CrashLosesAtMostOneRecord ==
    ppc = "idle" => Cardinality({op \in completedOps : ~Recorded(op, ppDisk)}) <= 1

\* C9 as stated: when processPlaylists has gone through a playlist, every
\* URL has reached a terminal outcome and no file is left in the downloads
\* and merged folders, the playlist is marked processed.
C9_ProcessedWhenAllTerminal ==
    /\ ppc = "done"
    /\ Range(dlResults.successful) \cup Range(dlResults.failed)
          \cup Range(dlResults.skipped) = 1..ppTotal
    /\ downloadsDir = {} /\ mergedDir = {}
    => ppMem.processed /\ ppDisk.processed

(***************************************************************************)
(* Claims C11..C20.                                                        *)
(***************************************************************************)
RecordCount(p, k) == CountOf(p.downloaded, k) + CountOf(p.skipped, k) + CountOf(p.failed, k)

\* C11: after an interrupted run and a restart no index an earlier run
\* recorded (downloaded, skipped or failed) is processed again, so every index
\* has at most one record across the three lists.  The code resumes after the
\* highest DOWNLOADED index only: skipped and failed items above it are
\* processed and recorded again.
C11_NoIndexProcessedTwice ==
    /\ pc = "downloading" => VideoIndex \notin RecordedIndices(mem)
    /\ \A k \in 1..total : RecordCount(mem, k) <= 1 /\ RecordCount(disk, k) <= 1

TalkOrphanList ==
    << F(<<"talk", "_", "video">>, ".mp4"),
       F(<<"talk", "_", "audio">>, ".webm"),
       F(<<"orphan", "_", "video">>, ".mp4") >>

\* The video-only files the matcher that ran reports for its input.
VideoOnlyFiles ==
    IF matcher = "exact" THEN findVideoOnlyFiles(files, pairs)
    ELSE unusedVideos(files, pairs)

\* C12: for the list [talk_video.mp4, talk_audio.webm, orphan_video.mp4] the
\* matcher returns exactly one pair, stem talk, video talk_video.mp4, audio
\* talk_audio.webm, and exactly one video-only file, orphan_video.mp4.  In
\* the code the video test comes first and ".webm" is a video extension, so
\* talk_audio.webm is a video file: there is no pair.
C12_TalkPairOrphanVideoOnly ==
    (matcher \in {"exact", "fuzzy"} /\ files = TalkOrphanList) =>
        /\ Len(pairs) = 1
        /\ pairs[1].baseName = "talk"
        /\ pairs[1].video = "talk_video.mp4"
        /\ pairs[1].audio = "talk_audio.webm"
        /\ VideoOnlyFiles = <<"orphan_video.mp4">>

\* File n has a 'completed' record in store st and the file in the folder is
\* the one that was uploaded (the record's hash, where one is stored, is the
\* hash of the file).
CompletedUnchanged(st, n) ==
    /\ srcDir[n] # NoContent
    /\ st[n].status = "completed"
    /\ st[n].fileHash \in {NoHash, HashOf(srcDir[n])}

\* C13: in each of the three uploaders, uploadToS3 is never in flight for a
\* file that has a 'completed' upload record (in the progress or upload log,
\* in memory or saved, or in the upload history) and whose content is
\* unchanged.  The upload-history uploader consults the history only: a file
\* whose record reached the progress file but not the history file is
\* uploaded again.
C13_NoUploadOfCompleted ==
    upc = "uploading" =>
        \A st \in {upMem, upDisk, histMem, histDisk} :
            ~CompletedUnchanged(st, queue[qi].name)

C15_CorruptFileStartsFresh ==
    /\ [][(stc = "idle" /\ stc' = "ready" /\ stFile.exists /\ ~JSONparse(stFile.text).ok) =>
              stMem' = CASE stKind = "download" -> FreshProgress
                         [] stKind = "upload" -> FreshUploadProgress
                         [] OTHER -> FreshProcessingState]_vars
    /\ [](stLoadedCorrupt => ~stThrew)
    /\ []((stLoadedCorrupt /\ stSaved # Undefined) =>
              /\ JSONparse(stFile.text).ok
              /\ JSONparse(stFile.text).v = stSaved)

\* C15 witness: a run that loaded an unparseable file has saved a record.
C15_Witness ==
    /\ stLoadedCorrupt /\ stSaved # Undefined /\ stc # "idle"
    /\ RecordsOf(stKind, stSaved) # {}

\* The fields the operations use are there, with values of the type of
\* their defaults.
HasFieldsUsed(kind, p) ==
    LET HasLists(e, ls) == e.t = "undefined" \/ (IsObject(e) /\ \A l \in ls : IsArray(Get(e, l)))
    IN  CASE kind = "download" ->
                /\ IsObject(Get(p, "playlists"))
                /\ Get(p, "totalDownloaded").t = "number"
                /\ HasLists(EntryOf(p, "playlists", "u"),
                            {"downloadedVideos", "skippedVideos", "failedVideos"})
          [] kind = "upload" ->
                /\ IsObject(Get(p, "uploadedFiles"))
                /\ IsObject(Get(p, "session"))
                /\ Get(Get(p, "session"), "completedFiles").t = "number"
          [] OTHER ->
                /\ IsObject(Get(p, "playlists"))
                /\ HasLists(EntryOf(p, "playlists", "pl"),
                            {"downloadedVideos", "mergedVideos", "uploadedVideos"})

\* C16: loading a parseable document that lacks fields the code uses gives
\* a state in which these fields have their defaults, and the operations
\* that follow raise no error.  The loaders return the parsed document as it
\* is: the first use of a missing object or list raises a TypeError.
C16_MissingFieldsDefaulted ==
    /\ (stForeign /\ stRuns = 1 /\ stOps = 0 /\ stc = "ready") => HasFieldsUsed(stKind, stMem)
    /\ stForeign => ~stThrew

\* C17: when the process is stopped by the SIGINT handler at any moment of a
\* run, also while saveProgress is writing the file, the next load returns
\* every record that an earlier finished save had written.  fs.writeFile
\* empties the file before it writes: stopped in between, the file holds no
\* JSON and the next load starts from the fresh state.
C17_InterruptKeepsPersisted ==
    [][(stc = "idle" /\ stc' = "ready") =>
          stPersisted \subseteq RecordsOf(stKind, stMem')]_vars

\* C18: in every uploader variant a file whose upload succeeded and whose
\* move to the transferred folder, or whose deletion, failed is counted as
\* uploaded and not as failed.  The step is the return of moveToTransferred
\* or deleteFile that leaves the file in the source folder.
C18_SecondaryFailureCountsUploaded ==
    [][(/\ \/ upc = "moving" /\ upc' = "saving"
           \/ upc = "deleting" /\ upc' = "loop"
        /\ srcDir' = srcDir)
       => /\ stats'.uploaded = stats.uploaded + 1
          /\ stats'.failed = stats.failed]_vars

\* C19: when the upload of a file succeeded and the move or delete that
\* follows failed, the file's 'completed' record stays in the in-memory
\* progress, is in the progress file once the save that follows has run,
\* and the file is not uploaded again while it stays unchanged.
UploadStoreMem == IF upVariant = "history" THEN histMem ELSE upMem
UploadStoreDisk == IF upVariant = "history" THEN histDisk ELSE upDisk
SavePending(n) == upc = "saving" /\ qi <= Len(queue) /\ queue[qi].name = n
C19_RecordSurvivesFailedMove ==
    \A n \in moveFailed :
        /\ upc # "idle" => UploadStoreMem[n].status = "completed"
        /\ ~SavePending(n) => UploadStoreDisk[n].status = "completed"
        /\ ~(upc = "uploading" /\ queue[qi].name = n)
C19_Witness ==
    /\ upRuns = 2 /\ upc \in {"done", "returned"}
    /\ \E n \in moveFailed : n \notin attempted /\ srcDir[n] # NoContent

\* C20: in PlaylistProcessor the merge stage processes only files of the
\* current playlist's downloads and the upload stage only the current
\* playlist's merged outputs; a file another playlist left in the downloads
\* or merged folder is neither merged nor uploaded nor added to the
\* playlist's mergedVideos / uploadedVideos.
OwnOutputs == {OutputName(k) : k \in 1..ppTotal}
C20_OnlyOwnFilesProcessed ==
    /\ ppc = "mergeOp" => mergeQueue[ppi] \in 1..ppTotal
    /\ ppc = "uploadOp" => upQueue[ppi] \in 1..ppTotal
    /\ Range(ppMem.mergedVideos) \subseteq OwnOutputs
    /\ Range(ppMem.uploadedVideos) \subseteq OwnOutputs
    /\ Range(ppDisk.mergedVideos) \subseteq OwnOutputs
    /\ Range(ppDisk.uploadedVideos) \subseteq OwnOutputs


(***************************************************************************)
(* Claims C21..C30.                                                        *)
(***************************************************************************)
\* C21: once the stored state of a playlist has completed (downloader) or
\* processed (PlaylistProcessor) equal to true, no step of a run invokes a
\* download, merge or upload for the playlist and no step changes the
\* playlist's stored state.
C21_CompletedPlaylistSkipped ==
    /\ [][disk.completed => (disk' = disk /\ pc' # "downloading")]_vars
    /\ [][ppDisk.processed =>
            (ppDisk' = ppDisk /\ ppc' \notin {"downloadOp", "mergeOp", "uploadOp"})]_vars
C21_Witness == ppDisk.processed /\ ppc = "skipped" /\ ppRuns = 2

C23_DelayBetweenProcessedPlaylists == mainPc = "playlist" => delayed

\* C26: once the process has exited, its exit status is non-zero exactly
\* when it exited for a process-level condition (invalid configuration,
\* external tool or storage backend not reachable at initialisation); a run
\* with failed units that ends otherwise exits with status 0.
C26_NonZeroExitIffFatal ==
    mainPc = "exited" => ((exitCode # 0) <=> (exitCause = "fatal"))

\* C24: for one item downloadAudioContent invokes the fallback download at
\* most maxRetries times; an item whose attempts all failed is recorded as
\* failed after exactly maxRetries invocations and the loop goes on with the
\* next item; the loop over the playlist ends with a record for every item.
AuRecordsInBound ==
    /\ fallbackCalls <= MaxRetriesArg(settingsMaxRetries)
    /\ \A k \in 1..Len(auRecords) :
          auRecords[k].exhausted =>
             /\ auRecords[k].status = "failed"
             /\ auRecords[k].calls = MaxRetriesArg(settingsMaxRetries)
    /\ auPc = "done" => Len(auRecords) = auTotal
C24_BoundedRetriesAndTermination == []AuRecordsInBound /\ <>(auPc = "done")
C24_Witness ==
    /\ auPc = "done" /\ auTotal = 2
    /\ auRecords[1].exhausted /\ auRecords[1].calls = 3
    /\ auRecords[2].status = "downloaded"

\* C25: in the progress-tracking YouTubeDownloader a unit whose download
\* operation fails, by returning a failure (every format attempt failed) or
\* by raising an error, gets a record in failedVideos and none in
\* skippedVideos or downloadedVideos.
C25_FailedDownloadRecordedFailed ==
    [][(dlVariant = "video" /\ (DownloadEnds("fail") \/ DownloadEnds("throw")))
       => /\ CountOf(mem'.failed, VideoIndex) = CountOf(mem.failed, VideoIndex) + 1
          /\ mem'.skipped = mem.skipped
          /\ mem'.downloaded = mem.downloaded]_vars

\* C27: a unit that has a 'completed' (upload, processing) or 'downloaded'
\* record keeps it: no step of the run takes the record out of the
\* in-memory state or gives it a weaker status, and the state a later run
\* loads holds every such record that a finished save had written.
CompletedUnits(kind, records) ==
    CASE kind = "download" ->
            {Get(r[2], "index") : r \in {q \in records : q[1] = "downloadedVideos"}}
      [] kind = "upload" ->
            {r[2].k : r \in {q \in records : Get(q[2].v, "status") = Str("completed")}}
      [] OTHER ->
            {r[2] : r \in {q \in records : q[1] = "uploadedVideos"}}
C27_CompletedRecordsKept ==
    /\ [][(stc # "idle" /\ stc' # "idle") =>
             CompletedUnits(stKind, RecordsOf(stKind, stMem))
                \subseteq CompletedUnits(stKind, RecordsOf(stKind, stMem'))]_vars
    /\ [][(stc = "idle" /\ stc' = "ready") =>
             CompletedUnits(stKind, stPersisted)
                \subseteq CompletedUnits(stKind, RecordsOf(stKind, stMem'))]_vars

\* C28: when processFiles of an uploader has ended, the counters of the run
\* add up to the number of media files it found in the source folder:
\* uploaded + skipped + failed = mediaFiles.length.
C28_CountersAddUp ==
    upc \in {"done", "returned"} =>
        stats.uploaded + stats.skipped + stats.failed = totalFiles


\* The position of x in the sequence input (x occurs in it once).
PositionIn(x, input) == CHOOSE k \in 1..Len(input) : input[k] = x
\* done lists elements of input, each once, in the order of input.
InInputOrder(done, input) ==
    /\ \A a \in 1..Len(done) : \E k \in 1..Len(input) : input[k] = done[a]
    /\ \A a, b \in 1..Len(done) :
          a < b => PositionIn(done[a], input) < PositionIn(done[b], input)
\* The download units that have a result.
DownloadUnitsDone ==
    Range(dlResults.successful) \cup Range(dlResults.failed) \cup Range(dlResults.skipped)
\* The stage an operation in flight belongs to is the stage the processor is in.
StageOfPc ==
    CASE ppc = "downloadOp" -> "download"
      [] ppc = "mergeOp" -> "merge"
      [] ppc = "uploadOp" -> "upload"
      [] OTHER -> "none"
OneOperationInOrder ==
    /\ Cardinality(inFlight) <= 1
    /\ \A op \in inFlight : op[1] = StageOfPc
    /\ ppc \in {"download", "downloadOp"} => DownloadUnitsDone = 1..(ppi - 1)
    /\ ppc = "downloadDelay" => DownloadUnitsDone = 1..ppi
    /\ ppc \in {"merge", "mergeOp", "uploaderInit", "upload", "uploadOp", "done"} =>
          /\ DownloadUnitsDone = 1..ppTotal
          /\ Len(dlResults.successful) + Len(dlResults.failed) + Len(dlResults.skipped)
                = ppTotal
    /\ InInputOrder(dlResults.successful, [k \in 1..ppTotal |-> k])
    /\ InInputOrder(dlResults.failed, [k \in 1..ppTotal |-> k])
    /\ InInputOrder(dlResults.skipped, [k \in 1..ppTotal |-> k])
    /\ ppc \in {"merge", "mergeOp"} =>
          InInputOrder(mergedFiles,
                       [k \in 1..(IF ppc = "merge" THEN ppi - 1 ELSE ppi) |->
                           OutputName(mergeQueue[k])])
    /\ ppc \in {"uploaderInit", "upload", "uploadOp", "done"} =>
          InInputOrder(mergedFiles, [k \in 1..Len(mergeQueue) |-> OutputName(mergeQueue[k])])
    /\ ppc \in {"upload", "uploadOp"} =>
          \A done \in {upResults.uploadedFiles, upResults.failedFiles,
                        upResults.skippedFiles} :
             InInputOrder(done, [k \in 1..(IF ppc = "upload" THEN ppi - 1 ELSE ppi) |->
                                    OutputName(upQueue[k])])

CombinedDepths(v, a) ==
    {(kv - 1) + (ka - 1) : <<kv, ka>> \in
        {q \in (1..Len(SearchTermsOf(v))) \X (1..Len(SearchTermsOf(a))) :
            SearchTermsOf(v)[q[1]] = SearchTermsOf(a)[q[2]]}}
LeastOf(depths) == CHOOSE d \in depths : \A e \in depths : d <= e
\* The file of the input list with the given name.
FileNamed(name) == files[CHOOSE k \in 1..Len(files) : FileName(files[k]) = name]
\* The audio files of the input still unused when pair number k was made.
UnusedAudioAt(k) ==
    {files[m] : m \in {n \in 1..Len(files) :
        /\ IsAudioFile(files[n])
        /\ \A e \in 1..(k - 1) : pairs[e].audio # FileName(files[n])}}
\* C30: for each video the fuzzy findMatchingPairs pairs, the audio file it
\* selects has the least combined truncation depth among the unused audio
\* files that share a search term with the video.
C30_LeastCombinedDepth ==
    matcher = "fuzzy" =>
        \A k \in 1..Len(pairs) :
            \A a \in UnusedAudioAt(k) :
                CombinedDepths(FileNamed(pairs[k].video), a) # {} =>
                    LeastOf(CombinedDepths(FileNamed(pairs[k].video),
                                           FileNamed(pairs[k].audio)))
                        <= LeastOf(CombinedDepths(FileNamed(pairs[k].video), a))


(***************************************************************************)
(* Claims C31..C40.                                                        *)
(***************************************************************************)
\* The positions of the input list whose file has the stem of position k.
SameStemAs(k) == {n \in 1..Len(files) : cleanFilename(files[n]) = cleanFilename(files[k])}
\* Positions kv, ka hold a video and an audio file with the same stem that no
\* other file of the input has.
ExactStemPartners(kv, ka) ==
    /\ IsVideoFile(files[kv]) /\ IsAudioFile(files[ka])
    /\ SameStemAs(kv) = {kv, ka}
\* C31: in the fuzzy findMatchingPairs a video file and an audio file with
\* identical stems, the only files of the input with that stem, are paired
\* with each other, whatever the other files and their order; a pair made by
\* truncation (matchLevel > 0) has a video without exact-stem partner.
C31_ExactStemPartnersPaired ==
    matcher = "fuzzy" =>
        /\ \A kv, ka \in 1..Len(files) :
              ExactStemPartners(kv, ka) =>
                 \E p \in 1..Len(pairs) :
                    /\ pairs[p].video = FileName(files[kv])
                    /\ pairs[p].audio = FileName(files[ka])
        /\ \A p \in 1..Len(pairs) :
              pairs[p].matchLevel > 0 =>
                 ~ \E kv, ka \in 1..Len(files) :
                      ExactStemPartners(kv, ka) /\ pairs[p].video = FileName(files[kv])


\* The first position of the input list that holds the file of that name.
FirstPositionOf(name) ==
    CHOOSE k \in 1..Len(files) :
        FileName(files[k]) = name /\ \A n \in 1..(k - 1) : FileName(files[n]) # name
\* The positions of the audio files unused when pair number k was made that
\* match the pair's video at combined depth d.
UnusedAudioAtDepth(k, d) ==
    {n \in 1..Len(files) :
        /\ files[n] \in UnusedAudioAt(k)
        /\ CombinedDepths(FileNamed(pairs[k].video), files[n]) # {}
        /\ LeastOf(CombinedDepths(FileNamed(pairs[k].video), files[n])) = d}
\* C32: when several unused audio files match a video at the same combined
\* truncation depth, findMatchingPairs pairs the video with the one that
\* comes first in the input order.
C32_TieGoesToFirstInInput ==
    matcher = "fuzzy" =>
        \A k \in 1..Len(pairs) :
            \A n \in UnusedAudioAtDepth(k,
                        LeastOf(CombinedDepths(FileNamed(pairs[k].video),
                                               FileNamed(pairs[k].audio)))) :
                FirstPositionOf(pairs[k].audio) <= n


\* C33: moveToTransferred never overwrites a file of the transferred folder:
\* every file present before a call is present with its content after it,
\* for any number of earlier collisions of the name.
C33_MoveNeverOverwrites ==
    [][\A r \in transferredFolder : r \in transferredFolder']_vars


\* merger.js findAudioOnlyFiles: the names of the files with an audio
\* extension whose base name is not the base name of a pair.
findAudioOnlyFiles(fs, prs) ==
    LET pairedBaseNames == {prs[k].baseName : k \in 1..Len(prs)}
        audioOnly(f) == ToLower(f.ext) \in AUDIO_EXTENSIONS
                        /\ getBaseName(f) \notin pairedBaseNames
        sel == SelectSeq(fs, audioOnly)
    IN  [k \in 1..Len(sel) |-> FileName(sel[k])]
\* In how many places of the results of a scan the file name occurs: as the
\* video or the audio of a pair, in the audio-only list, in the video-only list.
PlacesOf(name) ==
    Cardinality({k \in 1..Len(pairs) : pairs[k].video = name})
    + Cardinality({k \in 1..Len(pairs) : pairs[k].audio = name})
    + CountOf(findAudioOnlyFiles(files, pairs), name)
    + CountOf(findVideoOnlyFiles(files, pairs), name)
\* A directory listing: no name twice.
IsListing(fs) == \A a, b \in 1..Len(fs) : a # b => FileName(fs[a]) # FileName(fs[b])
\* C34: VideoMerger partitions the media files of a scan: every file of the
\* listing with a video or audio extension is in exactly one of a pair, the
\* audio-only list and the video-only list.
C34_MediaFilesPartitioned ==
    (matcher = "exact" /\ IsListing(files)) =>
        \A k \in 1..Len(files) :
            ToLower(files[k].ext) \in VIDEO_EXTENSIONS \cup AUDIO_EXTENSIONS =>
                PlacesOf(FileName(files[k])) = 1


\* The output file names of the units of one merge run, in the order the
\* run writes them.  processFolder: `${baseName}_merged.mp4` per pair (the
\* replacements of lines 132-135 change no name of the file pool).
\* processDownloads: `${baseName}.mp4` per pair, `${baseName}.mp3` per
\* audio-only file, `${baseName}.mp4` per video-only file.
OutputsOfRun ==
    IF matcher = "fuzzy"
    THEN [k \in 1..Len(pairs) |-> pairs[k].baseName \o "_merged.mp4"]
    ELSE LET pairedBaseNames == {pairs[k].baseName : k \in 1..Len(pairs)}
             audioOnly(f) == ToLower(f.ext) \in AUDIO_EXTENSIONS
                             /\ getBaseName(f) \notin pairedBaseNames
             videoOnly(f) == IsVideoFile(f) /\ getBaseName(f) \notin pairedBaseNames
             as == SelectSeq(files, audioOnly)
             vs == SelectSeq(files, videoOnly)
         IN  [k \in 1..Len(pairs) |-> pairs[k].baseName \o ".mp4"]
             \o [k \in 1..Len(as) |-> getBaseName(as[k]) \o ".mp3"]
             \o [k \in 1..Len(vs) |-> getBaseName(vs[k]) \o ".mp4"]
\* C35: within one merge run (processDownloads or processFolder) over a
\* directory listing, no two distinct units write the same output path.
C35_NoTwoUnitsWriteOneOutput ==
    (matcher \in {"exact", "fuzzy"} /\ IsListing(files)) =>
        \A a, b \in 1..Len(OutputsOfRun) : a # b => OutputsOfRun[a] # OutputsOfRun[b]


\* C37: processDownloads, called with alreadyProcessed = the playlist's
\* mergedVideos, merges no unit that mergedVideos lists, also when the
\* unit's source files are still in the downloads folder.
C37_MergedUnitNotMergedAgain ==
    [][(ppc = "merge" /\ ppc' = "mergeOp") =>
          OutputName(mergeQueue[ppi]) \notin Range(ppMem.mergedVideos)]_vars


\* The uploader removes the file named n from the source folder in this step.
UploaderDeletes(n) == upc # "idle" /\ srcDir[n] # NoContent /\ srcDir'[n] = NoContent
C38_ProgressAndHistoryAgree ==
    (upVariant = "history" /\ upc = "ready") =>
        \A n \in UpNames :
            upMem[n].status = "completed" =>
                isFileInHistory(histMem, n, upMem[n].fileHash)


\* The records of the given status.
RecordsWithStatus(status) == {k \in 1..Len(auRecords) : auRecords[k].status = status}
\* C39: in AudioYouTubeDownloader.downloadPlaylist each item processed in a
\* run, an item reported unavailable (its result has no audioInfo) included,
\* appends exactly one record, to downloadedAudios or to failedAudios, and
\* increments exactly one of the counters successful and failed, the one of
\* the list the record went to.
C39_OneRecordOneCounterPerItem ==
    /\ [](/\ auCounters.successful = Cardinality(RecordsWithStatus("downloaded"))
          /\ auCounters.failed = Cardinality(RecordsWithStatus("failed"))
          /\ auPc = "done" => Len(auRecords) = auTotal)
    /\ [][(auPc \in {"content", "attempt", "fallbackOp"} /\ auPc' \in {"delay", "loop"}) =>
             /\ Len(auRecords') = Len(auRecords) + 1
             /\ auCounters'.successful + auCounters'.failed
                   = auCounters.successful + auCounters.failed + 1]_vars
\* C39 witness: a finished run whose first item was reported unavailable
\* (recorded failed without a fallback call) and whose second was downloaded.
C39_Witness ==
    /\ auPc = "done" /\ auTotal = 2
    /\ auRecords[1].status = "failed" /\ auRecords[1].calls = 0 /\ ~auRecords[1].exhausted
    /\ auRecords[2].status = "downloaded"
    /\ auCounters = [successful |-> 1, failed |-> 1]


\* A run of processFolder in which every pending pair was merged, or in
\* which no pair was pending.
FolderRunComplete ==
    \/ fpc = "returned"
    \/ fpc = "done" /\ fProcessed = Len(PendingPairs(fExists))

\* Every matched pair had an output of size greater than 0 at the scan.
AllMergedAtScan == \A k \in 1..Len(fAtScan) : fAtScan[k] = "positive"

\* C40: processFolder invokes the encoder for a pair only if the scan of
\* the run found the pair's output missing or empty, a run that follows a
\* complete run starts from a scan in which every output has a size greater
\* than 0, and a run whose scan found that invokes no merge.
C40_NoMergeOfMergedPair ==
    /\ [][(fpc = "loop" /\ fpc' = "merging") =>
             fAtScan[PendingPairs(fExists)[fk]] \in {"none", "zero"}]_vars
    /\ [][(fRuns' = fRuns + 1 /\ fRuns >= 1 /\ FolderRunComplete) =>
             AllMergedAtScan']_vars
    /\ [](AllMergedAtScan => (fpc \in {"off", "scanned", "returned"} /\ fOutcomes = <<>>))

\* C40 witness: the second run found the output of the first pair merged,
\* that of the second empty and none for the third; it has merged the two
\* pending pairs and not the first.
C40_Witness ==
    /\ fRuns = 2 /\ fpc = "done"
    /\ fAtScan = <<"positive", "zero", "none">>
    /\ fOutcomes = <<"ok", "ok">>
    /\ fOutputs = <<"positive", "positive", "positive">>

=============================================================================
